---- MODULE Spec2Model ----
(***************************************************************************)
(* annotload.py: the annotation/evidence load of one input file into the   *)
(* VOC_Annot / VOC_Evidence / VOC_Evidence_Property / MGI_Note tables.     *)
(*                                                                         *)
(* A text is a sequence of characters.  A run of characters that holds no  *)
(* separator, colon or blank is kept as one element (<<"T1">>), so the     *)
(* string operations of the program (formatting with ':', strip, split on  *)
(* '&=&', '&==&', '&===&', prefix match) are computed on the characters    *)
(* they inspect.  An input line is the sequence of its tab-separated       *)
(* columns.                                                                *)
(***************************************************************************)
EXTENDS Integers, Sequences, FiniteSets, TLC

VARIABLES
    \* configuration (environment and command line)
    mode, loadType, annotTypeName, delByReference, delByUser, loadObsolete,
    \* control
    pc, exitStatus, run,
    \* globals of annotload.py
    DEBUG, delByReferenceKey, annotTypeKey,
    annotKey, evidencePrimaryKey, propertyKey, noteKey, logicalDBKey,
    termDict, objectDict, referenceDict, annotDict, evidenceDict, pTermDict,
    skipBCP,
    \* globals of vocabloadlib.py
    ecodeDict, qualifierDict,
    \* locals of processFile / processMcvFile
    lineNum, objectDictLoaded, mkrKeyList,
    \* files
    inputFile, errorFile, annotFile, evidenceFile, noteFile, propertyFile,
    \* the store
    VOC_Annot, VOC_Evidence, VOC_Evidence_Property, MGI_Note,
    MGI_Reference_Assoc, seq,
    \* what the run did: statements sent to the store, bulk loads, lines
    sqlLog, bcpLog, lineLog,
    \* a second loader process over the same store, while it is not the one
    \* taking steps
    suspended

config == <<mode, loadType, annotTypeName, delByReference, delByUser, loadObsolete>>
control == <<pc, exitStatus, run>>
keys == <<annotKey, evidencePrimaryKey, propertyKey, noteKey>>
dicts == <<termDict, objectDict, referenceDict, annotDict, evidenceDict, pTermDict>>
libDicts == <<ecodeDict, qualifierDict>>
locals == <<lineNum, objectDictLoaded, mkrKeyList>>
sinks == <<annotFile, evidenceFile, noteFile, propertyFile>>
store == <<VOC_Annot, VOC_Evidence, VOC_Evidence_Property, MGI_Note, MGI_Reference_Assoc, seq>>
vars == <<config, control, DEBUG, delByReferenceKey, annotTypeKey, keys, logicalDBKey,
          dicts, skipBCP, libDicts, locals, inputFile, errorFile, sinks, store,
          sqlLog, bcpLog, lineLog, suspended>>

\* ------------------------------------------------------------------ bounds

\* longest input file read
MaxLines == 3
\* longest input file of the validation specification
MaxBadLines == 2
\* value of the four store sequences before the first run
SeqStart == 4
\* runs of the loader over one store
MaxRuns == 2

\* the property blobs of the property specification: at most MaxStanzas
\* stanzas of at most MaxPairs pairs each, in a file of MaxPropLines lines
MaxStanzas == 2
MaxPairs == 2
MaxPropLines == 1
\* calls of a library function by one process
MaxCalls == 3

\* ------------------------------------------------------------------- texts

Digit == <<"0", "1", "2", "3", "4", "5", "6", "7", "8", "9">>

\* '%s' % n for a non-negative integer
RECURSIVE Str(_)
Str(n) ==
    IF n < 10 THEN <<Digit[n + 1]>> ELSE Str(n \div 10) \o <<Digit[(n % 10) + 1]>>

\* Python's None, as a dictionary key and as '%s' prints it
None == <<"None">>

\* 'a:b:c' from <<a, b, c>>
RECURSIVE JoinColon(_)
JoinColon(parts) ==
    IF Len(parts) = 0 THEN <<>>
    ELSE IF Len(parts) = 1 THEN parts[1]
    ELSE parts[1] \o <<":">> \o JoinColon(Tail(parts))

IsBlank(c) == c \in {" ", "\t", "\n"}

RECURSIVE LStrip(_)
LStrip(t) ==
    IF t # <<>> /\ IsBlank(Head(t)) THEN LStrip(Tail(t)) ELSE t

RECURSIVE RStrip(_)
RStrip(t) ==
    IF t # <<>> /\ IsBlank(t[Len(t)]) THEN RStrip(SubSeq(t, 1, Len(t) - 1)) ELSE t

\* str.strip
Strip(t) == RStrip(LStrip(t))

StartsWith(t, p) == Len(t) >= Len(p) /\ SubSeq(t, 1, Len(p)) = p

\* str.split(t, sep), sep not empty: the pieces between the matches of sep,
\* found left to right without overlap
RECURSIVE SplitAcc(_, _, _)
SplitAcc(t, sep, cur) ==
    IF t = <<>> THEN <<cur>>
    ELSE IF StartsWith(t, sep)
         THEN <<cur>> \o SplitAcc(SubSeq(t, Len(sep) + 1, Len(t)), sep, <<>>)
         ELSE SplitAcc(Tail(t), sep, Append(cur, Head(t)))

Split(t, sep) == SplitAcc(t, sep, <<>>)

\* re.sub('"', '', t)
RECURSIVE RemoveQuotes(_)
RemoveQuotes(t) ==
    IF t = <<>> THEN <<>>
    ELSE IF Head(t) = "\"" THEN RemoveQuotes(Tail(t))
    ELSE <<Head(t)>> \o RemoveQuotes(Tail(t))

\* SQL lower() on the identifiers of the model
LowerChar(c) == CASE c = "O1" -> "o1" [] c = "O2" -> "o2" [] c = "O3" -> "o3" [] OTHER -> c

Lower(t) == [i \in 1..Len(t) |-> LowerChar(t[i])]

\* SQL: login like pattern, for a pattern whose only wildcard is a final '%'
Like(login, pattern) ==
    IF pattern # <<>> /\ pattern[Len(pattern)] = "%"
    THEN StartsWith(login, SubSeq(pattern, 1, Len(pattern) - 1))
    ELSE login = pattern

Range(s) == {s[i] : i \in DOMAIN s}

Max(S) == CHOOSE m \in S : \A n \in S : n <= m

\* ------------------------------------------------- reference data (store)
\* Tables the loader only reads.

\* VOC_AnnotType: name -> _AnnotType_key
AnnotTypeTable == (<<"X">> :> 1) @@ (<<"Y">> :> 2)

\* terms of the annotation vocabulary (VOC_Term_Acc_View, VOC_Term)
TermTable ==
    { [accID |-> <<"T1">>, key |-> 1, isObsolete |-> 0],
      [accID |-> <<"T2">>, key |-> 2, isObsolete |-> 1] }

\* ACC_Accession rows of the annotated object type
AccessionTable ==
    { [accID |-> <<"O1">>, ldb |-> 1, key |-> 1, preferred |-> 1],
      [accID |-> <<"O2">>, ldb |-> 1, key |-> 2, preferred |-> 0],
      [accID |-> <<"O3">>, ldb |-> 2, key |-> 3, preferred |-> 1] }

\* ACC_Accession rows of references (prefixPart 'J:'): accID -> _Refs_key
ReferenceTable == (<<"J", ":", "1">> :> 1) @@ (<<"J", ":", "2">> :> 2)

\* evidence vocabulary of the annotation type
EvidenceVocab == { [key |-> 1, abbreviation |-> <<"E1">>] }

\* qualifier vocabulary of the annotation type; the unqualified term has no text
QualifierVocab ==
    { [key |-> 1, term |-> None, abbreviation |-> None],
      [key |-> 2, term |-> <<"NOT">>, abbreviation |-> <<"N">>] }

\* property vocabulary named by ANNOTPROPERTY
PropertyVocab == { [key |-> 1, term |-> <<"p">>], [key |-> 2, term |-> <<"q">>] }

\* MGI_User: login -> _User_key
UserTable == (<<"u", "1">> :> 1) @@ (<<"u", "2">> :> 2)

\* ACC_LogicalDB: name -> _LogicalDB_key
LogicalDBTable == (<<"MGI">> :> 1) @@ (<<"EG">> :> 2)

\* loadlib.loaddate
loaddate == <<"today">>

mgiNoteObjectKey == 25
mgiNoteTypeKey == 1008

\* ------------------------------------------------------------- rows
AnnotRow(k, t, o, tm, q, d) ==
    [key |-> k, type |-> t, object |-> o, term |-> tm, qualifier |-> q,
     cdate |-> d, mdate |-> d]

\* mutant: the inferred-from text is not written
EvidenceRow_NoInferredFrom(k, a, e, r, inf, by, d) ==
    [key |-> k, annot |-> a, code |-> e, ref |-> r, inferredFrom |-> <<>>,
     createdBy |-> by, modifiedBy |-> by, cdate |-> d, mdate |-> d]

EvidenceRow(k, a, e, r, inf, by, d) ==
    [key |-> k, annot |-> a, code |-> e, ref |-> r, inferredFrom |-> inf,
     createdBy |-> by, modifiedBy |-> by, cdate |-> d, mdate |-> d]

\* mutant: the note is keyed by its own key, not by the evidence key
NoteRow_ByNoteKey(k, o, mt, nt, txt, by, d) ==
    [key |-> k, object |-> k, mgiType |-> mt, noteType |-> nt, note |-> txt,
     createdBy |-> by, modifiedBy |-> by, cdate |-> d, mdate |-> d]

NoteRow(k, o, mt, nt, txt, by, d) ==
    [key |-> k, object |-> o, mgiType |-> mt, noteType |-> nt, note |-> txt,
     createdBy |-> by, modifiedBy |-> by, cdate |-> d, mdate |-> d]

PropertyRow(k, e, tm, st, sq, v, by, d) ==
    [key |-> k, evidence |-> e, term |-> tm, stanza |-> st, seqnum |-> sq,
     value |-> v, createdBy |-> by, modifiedBy |-> by, cdate |-> d, mdate |-> d]

\* ------------------------------------------------------ stores at start
old == <<"old">>

A1 == AnnotRow(1, 1, 1, 1, 1, old)
A2 == AnnotRow(2, 1, 2, 1, 1, old)
A3 == AnnotRow(3, 2, 1, 1, 1, old)
A4 == AnnotRow(4, 1, 3, 1, 1, old)

Ev1 == EvidenceRow(1, 1, 1, 1, <<>>, 1, old)
Ev2 == EvidenceRow(2, 1, 1, 2, <<>>, 2, old)
Ev3 == EvidenceRow(3, 2, 1, 1, <<>>, 1, old)
Ev4 == EvidenceRow(4, 3, 1, 1, <<>>, 1, old)

Pr1 == PropertyRow(1, 2, 1, 1, 1, <<"v">>, 2, old)
Nt1 == NoteRow(1, 2, mgiNoteObjectKey, mgiNoteTypeKey, <<"n">>, 2, old)
Nt2 == NoteRow(2, 1, 41, 1045, <<"x">>, 2, old)

Store(a, e, p, n, ra) ==
    [annot |-> a, evidence |-> e, property |-> p, note |-> n, refAssoc |-> ra]

EmptyStore == Store({}, {}, {}, {}, {})

\* one evidence row under the loaded annotation type, one under another type
SeededStore == Store({A1, A3}, {Ev1, Ev4}, {}, {}, {})

\* the stores of the deletion cascade: annotations of two types, with any
\* subset of the evidence rows; Ev2 owns a property, an evidence note and a
\* property note
CascadeStores ==
    { Store({A1, A2, A3, A4}, e,
            IF Ev2 \in e THEN {Pr1} ELSE {},
            IF Ev2 \in e THEN {Nt1, Nt2} ELSE {},
            {[ref |-> 1, mgiType |-> 11, assocType |-> 1017]})
      : e \in SUBSET {Ev1, Ev2, Ev3, Ev4} }

\* ------------------------------------------------------------- load types
LoadTypes ==
    {"Standard", "mcv", "mp", "omimhpo", "mpMarker", "mpAllele",
     "go", "diseaseMarker", "diseaseAllele"}

isMCV == loadType = "mcv"
isMP == loadType = "mp"
isGO == loadType = "go"
isDiseaseMarker == loadType = "diseaseMarker"
isDiseaseAllele == loadType = "diseaseAllele"
isMPMarker == loadType = "mpMarker"
isMPAllele == loadType = "mpAllele"
isOMIMHPO == loadType = "omimhpo"

\* ------------------------------------------------------------------- Init
\* The state after the module's globals are set and init() has opened the
\* files, for a configuration and a store drawn from the given sets.
InitRun(modes, loadTypes, typeNames, refs, users, obsoletes, stores) ==
    /\ mode \in modes
    /\ loadType \in loadTypes
    /\ annotTypeName \in typeNames
    /\ delByReference \in refs
    /\ delByUser \in {u \o <<"%">> : u \in users}
    /\ loadObsolete \in obsoletes
    /\ pc = "init"
    /\ exitStatus = -1
    /\ run = 1
    /\ DEBUG = 0
    /\ delByReferenceKey = 0
    /\ annotTypeKey = 0
    /\ annotKey = 0
    /\ evidencePrimaryKey = 0
    /\ propertyKey = 0
    /\ noteKey = 0
    /\ logicalDBKey = 1
    /\ termDict = <<>>
    /\ objectDict = <<>>
    /\ referenceDict = <<>>
    /\ annotDict = <<>>
    /\ evidenceDict = {}
    /\ pTermDict = <<>>
    /\ skipBCP = 1
    /\ ecodeDict = <<>>
    /\ qualifierDict = <<>>
    /\ lineNum = 0
    /\ objectDictLoaded = 0
    /\ mkrKeyList = <<>>
    /\ inputFile = <<>>
    /\ errorFile = <<>>
    /\ annotFile = <<>>
    /\ evidenceFile = <<>>
    /\ noteFile = <<>>
    /\ propertyFile = <<>>
    /\ \E s \in stores :
        /\ VOC_Annot = s.annot
        /\ VOC_Evidence = s.evidence
        /\ VOC_Evidence_Property = s.property
        /\ MGI_Note = s.note
        /\ MGI_Reference_Assoc = s.refAssoc
    /\ seq = [annot |-> SeqStart, evidence |-> SeqStart,
              note |-> SeqStart, property |-> SeqStart]
    /\ sqlLog = <<>>
    /\ bcpLog = <<>>
    /\ lineLog = <<>>

\* no second process
NoProcess == [pc |-> "none"]

\* one loader process over the store
InitWith(modes, loadTypes, typeNames, refs, users, obsoletes, stores) ==
    /\ InitRun(modes, loadTypes, typeNames, refs, users, obsoletes, stores)
    /\ suspended = NoProcess

\* ------------------------------------------------------------ termination
\* exit(status): the single exit path
Exit(status) ==
    /\ pc' = "exited"
    /\ exitStatus' = status

\* an entry of the error file
ErrorEntry(kind, n, value, line) ==
    [kind |-> kind, lineNum |-> n, value |-> value, line |-> line]

\* ------------------------------------------------------------- validators
\* Each returns the key it resolved (0: unresolved) and what it wrote to the
\* error file.

verifyTerm(termID, n, line) ==
    IF termID \in DOMAIN termDict
    THEN [key |-> termDict[termID], errors |-> <<>>]
    ELSE [key |-> 0,
          errors |-> <<ErrorEntry(IF loadObsolete = "0"
                                  THEN "Invalid or Obsolete Term"
                                  ELSE "Invalid Term", n, termID, line)>>]

verifyReference(referenceID, n, line) ==
    IF referenceID \in DOMAIN referenceDict
    THEN [key |-> referenceDict[referenceID], errors |-> <<>>]
    ELSE [key |-> 0,
          errors |-> <<ErrorEntry("Invalid Reference", n, referenceID, line)>>]

\* the query of verifyObject against ACC_Accession
ObjectQuery(objectID, ldb) ==
    {a \in AccessionTable : Lower(a.accID) = Lower(objectID) /\ a.ldb = ldb}

\* dict: the object dictionary the call finds; also returns the dictionary
\* it leaves
verifyObject(dict, objectID, ldb, n, line) ==
    IF objectID \in DOMAIN dict
    THEN [key |-> dict[objectID], errors |-> <<>>, objectDict |-> dict]
    ELSE LET results == ObjectQuery(objectID, ldb)
         IN  IF Cardinality(results) = 1
             THEN LET k == (CHOOSE a \in results : TRUE).key
                  IN  [key |-> k, errors |-> <<>>,
                       objectDict |-> (objectID :> k) @@ dict]
             ELSE [key |-> 0,
                   errors |-> <<ErrorEntry("Invalid Object", n, objectID, line)>>,
                   objectDict |-> dict]

\* vocabloadlib: the evidence dictionary after the lazy load of a call
EcodeLoaded(dict) ==
    IF DOMAIN dict = {}
    THEN [a \in {e.abbreviation : e \in EvidenceVocab} |->
            (CHOOSE e \in EvidenceVocab : e.abbreviation = a).key]
    ELSE dict

verifyEvidence(dict, ecode, n) ==
    LET d == EcodeLoaded(dict)
    IN  IF ecode \in DOMAIN d
        THEN [key |-> d[ecode], errors |-> <<>>, ecodeDict |-> d]
        ELSE [key |-> 0,
              errors |-> <<ErrorEntry("Invalid Evidence Code", n, ecode, <<>>)>>,
              ecodeDict |-> d]

\* vocabloadlib: the qualifier dictionary after the lazy load of a call
QualifierLoaded(dict, byAbbrev) ==
    IF DOMAIN dict = {}
    THEN IF byAbbrev = 1
         THEN [a \in {q.abbreviation : q \in QualifierVocab} |->
                 (CHOOSE q \in QualifierVocab : q.abbreviation = a).key]
         ELSE [a \in {q.term : q \in QualifierVocab} |->
                 (CHOOSE q \in QualifierVocab : q.term = a).key]
    ELSE dict

verifyQualifier(dict, qualifier, byAbbrev, n) ==
    LET d == QualifierLoaded(dict, byAbbrev)
        q == IF Len(qualifier) = 0 THEN None ELSE qualifier
    IN  IF q \in DOMAIN d
        THEN [key |-> d[q], errors |-> <<>>, qualifierDict |-> d]
        ELSE [key |-> 0,
              errors |-> <<ErrorEntry("Invalid Qualifier", n, q, <<>>)>>,
              qualifierDict |-> d]

\* a process that imported vocabloadlib calls verifyQualifier, by
\* abbreviation or by term, with the error file of the caller
callVerifyQualifier(qualifiers, max) ==
    /\ lineNum < max
    /\ \E qualifier \in qualifiers, byAbbrev \in {0, 1} :
       \E r \in {verifyQualifier(qualifierDict, qualifier, byAbbrev, lineNum + 1)} :
          /\ qualifierDict' = r.qualifierDict
          /\ errorFile' = errorFile \o r.errors
          /\ lineNum' = lineNum + 1
          /\ lineLog' = Append(lineLog,
                [run |-> run, lineNum |-> lineNum + 1, qualifier |-> qualifier,
                 byAbbrev |-> byAbbrev, key |-> r.key])
    /\ UNCHANGED <<suspended, config, control, DEBUG, delByReferenceKey, annotTypeKey, keys,
                   logicalDBKey, dicts, skipBCP, ecodeDict, objectDictLoaded,
                   mkrKeyList, inputFile, sinks, store, sqlLog, bcpLog>>

\* loadlib.verifyUser (library): the user key of a login, 0 and an error
\* entry when there is none
verifyUser(editor, n) ==
    IF editor \in DOMAIN UserTable
    THEN [key |-> UserTable[editor], errors |-> <<>>]
    ELSE [key |-> 0, errors |-> <<ErrorEntry("Invalid User", n, editor, <<>>)>>]

\* accessionlib.get_LogicalDB_key (library): 0 stands for the None it returns
\* when the name is unknown
get_LogicalDB_key(name) ==
    IF name \in DOMAIN LogicalDBTable THEN LogicalDBTable[name] ELSE 0

\* ------------------------------------------------------------ start of run

\* init: the input file and the six output files are opened; a file that
\* cannot be opened ends the run with exit(1, 'Could not open file')
init ==
    /\ pc = "init"
    /\ \E opened \in BOOLEAN :
         IF opened
         THEN pc' = "verifyAnnotType" /\ UNCHANGED exitStatus
         ELSE Exit(1)
    /\ UNCHANGED <<suspended, config, run, DEBUG, delByReferenceKey, annotTypeKey, keys,
                   logicalDBKey, dicts, skipBCP, libDicts, locals, inputFile,
                   errorFile, sinks, store, sqlLog, bcpLog, lineLog>>

verifyAnnotType ==
    /\ pc = "verifyAnnotType"
    /\ annotTypeName' = RemoveQuotes(annotTypeName)
    /\ IF annotTypeName' \notin DOMAIN AnnotTypeTable
       THEN /\ Exit(1)
            /\ UNCHANGED annotTypeKey
       ELSE /\ annotTypeKey' = AnnotTypeTable[annotTypeName']
            /\ pc' = "loadReferenceDictionary"
            /\ UNCHANGED exitStatus
    /\ UNCHANGED <<suspended, mode, loadType, delByReference, delByUser, loadObsolete, run,
                   DEBUG, delByReferenceKey, keys, logicalDBKey, dicts, skipBCP,
                   libDicts, locals, inputFile, errorFile, sinks, store,
                   sqlLog, bcpLog, lineLog>>

loadReferenceDictionary ==
    /\ pc = "loadReferenceDictionary"
    /\ referenceDict' = ReferenceTable
    /\ pc' = "verifyMode"
    /\ UNCHANGED <<suspended, config, exitStatus, run, DEBUG, delByReferenceKey, annotTypeKey,
                   keys, logicalDBKey, termDict, objectDict, annotDict,
                   evidenceDict, pTermDict, skipBCP, libDicts, locals, inputFile,
                   errorFile, sinks, store, sqlLog, bcpLog, lineLog>>

\* --------------------------------------------------------------- verifyMode
\* the sentinels: no reference scoping, no curator scoping
NoReference == <<"J", ":", "0">>
NoUser == <<"n", "o", "n", "e", "%">>

\* mutant: the curator looked at before the reference
DeletionScope_UserFirst ==
    IF delByUser # NoUser THEN "user"
    ELSE IF delByReference # NoReference THEN "reference"
    ELSE "all"

\* which of the three 'create temp table toDelete' statements runs
DeletionScope ==
    IF delByReference # NoReference THEN "reference"
    ELSE IF delByUser # NoUser THEN "user"
    ELSE "all"

\* the rows of toDelete: (_Annot_key, _AnnotEvidence_key)
ToDelete(scope, refKey) ==
    { <<e.annot, e.key>> : e \in
        { e \in VOC_Evidence :
            /\ \E a \in VOC_Annot : a.key = e.annot /\ a.type = annotTypeKey
            /\ CASE scope = "reference" -> e.ref = refKey
                 [] scope = "user" ->
                        \E login \in DOMAIN UserTable :
                            /\ UserTable[login] = e.createdBy
                            /\ Like(login, delByUser)
                 [] OTHER -> TRUE } }

\* mutant: the notes are looked up through the property rows that are left
\* once the properties of toDelete are deleted
NotesAfterDelete_AfterProperties(td) ==
    { n \in MGI_Note :
        ~ ( /\ n.mgiType = 41
            /\ \E p \in { q \in VOC_Evidence_Property :
                             ~ \E d \in td : d[2] = q.evidence } :
                 /\ p.key = n.object
                 /\ \E d \in td : d[2] = p.evidence ) }

\* delete from MGI_Note ... where _MGIType_key = 41
NotesAfterDelete(td) ==
    { n \in MGI_Note :
        ~ ( /\ n.mgiType = 41
            /\ \E p \in VOC_Evidence_Property :
                 /\ p.key = n.object
                 /\ \E d \in td : d[2] = p.evidence ) }

\* delete from VOC_Evidence_Property
PropertiesAfterDelete(td) ==
    { p \in VOC_Evidence_Property : ~ \E d \in td : d[2] = p.evidence }

\* delete from VOC_Evidence
EvidenceAfterDelete(td) ==
    { e \in VOC_Evidence : ~ \E d \in td : d[2] = e.key }

\* mutant: the annotations of toDelete deleted, with evidence left or not
AnnotAfterDelete_NoOrphanCheck(td) ==
    { a \in VOC_Annot : ~ \E d \in td : d[1] = a.key }

\* delete from VOC_Annot ... and not exists (evidence of the annotation)
AnnotAfterDelete(td) ==
    { a \in VOC_Annot :
        ~ ( /\ \E d \in td : d[1] = a.key
            /\ ~ \E e \in EvidenceAfterDelete(td) : e.annot = a.key ) }

\* delete from MGI_Reference_Assoc (the Used-FC references)
RefAssocAfterDelete(refKey) ==
    { r \in MGI_Reference_Assoc :
        ~ (r.mgiType = 11 /\ r.ref = refKey /\ r.assocType = 1017) }

\* a statement sent to the store that changes it; arg is a string
Stmt(what, arg) == [stmt |-> what, arg |-> arg, run |-> run]

\* the statements of the cascade, in the order they are sent
CascadeStatements(scope, refKey) ==
    <<Stmt("create toDelete", scope),
      Stmt("delete MGI_Note", "toDelete"),
      Stmt("delete VOC_Evidence_Property", "toDelete"),
      Stmt("delete VOC_Evidence", "toDelete"),
      Stmt("delete VOC_Annot", "toDelete")>>
    \o (IF isMP THEN <<Stmt("delete MGI_Reference_Assoc", "reference")>> ELSE <<>>)
    \o <<Stmt("drop toDelete", "")>>

\* mutant: mode delete goes on to the load
ExitsAfterCascade_Never == FALSE

\* mutant: every mode string is taken
ValidMode_Any == TRUE

\* the modes of the if/elif chain of verifyMode
ValidMode == mode \in {"new", "delete", "append", "preview"}

\* if mode == 'delete': exit(0)
ExitsAfterCascade == mode = "delete"

verifyMode ==
    /\ pc = "verifyMode"
    /\ LET ref == IF delByReference # NoReference
                  THEN verifyReference(delByReference, 0, <<>>)
                  ELSE [key |-> delByReferenceKey, errors |-> <<>>]
           td == ToDelete(DeletionScope, ref.key)
       IN  /\ delByReferenceKey' = ref.key
           /\ errorFile' = errorFile \o ref.errors
           /\ IF mode \in {"new", "delete"}
              THEN /\ MGI_Note' = NotesAfterDelete(td)
                   /\ VOC_Evidence_Property' = PropertiesAfterDelete(td)
                   /\ VOC_Evidence' = EvidenceAfterDelete(td)
                   /\ VOC_Annot' = AnnotAfterDelete(td)
                   /\ MGI_Reference_Assoc' =
                        IF isMP THEN RefAssocAfterDelete(ref.key)
                        ELSE MGI_Reference_Assoc
                   /\ sqlLog' = sqlLog \o CascadeStatements(DeletionScope, ref.key)
              ELSE UNCHANGED <<MGI_Note, VOC_Evidence_Property, VOC_Evidence,
                               VOC_Annot, MGI_Reference_Assoc, sqlLog>>
           /\ DEBUG' = IF mode = "preview" THEN 1 ELSE DEBUG
           /\ IF ~ ValidMode
              THEN Exit(1)
              ELSE IF ExitsAfterCascade
              THEN Exit(0)
              ELSE pc' = "setPrimaryKeys" /\ UNCHANGED exitStatus
    /\ UNCHANGED <<suspended, config, run, annotTypeKey, keys, logicalDBKey, dicts, skipBCP,
                   libDicts, locals, inputFile, sinks, seq, bcpLog, lineLog>>

\* mutant: the keys are the current values of the sequences, which are not
\* advanced
setPrimaryKeys_CurrentValue ==
    /\ pc = "setPrimaryKeys"
    /\ seq' = seq
    /\ annotKey' = seq'.annot
    /\ evidencePrimaryKey' = seq'.evidence
    /\ noteKey' = seq'.note
    /\ propertyKey' = seq'.property
    /\ sqlLog' = sqlLog \o <<Stmt("nextval", "voc_annot_seq"),
                             Stmt("nextval", "voc_evidence_seq"),
                             Stmt("nextval", "mgi_note_seq"),
                             Stmt("nextval", "voc_evidence_property_seq")>>
    /\ pc' = "loadDictionaries"
    /\ UNCHANGED <<suspended, config, exitStatus, run, DEBUG, delByReferenceKey, annotTypeKey,
                   logicalDBKey, dicts, skipBCP, libDicts, locals, inputFile,
                   errorFile, sinks, VOC_Annot, VOC_Evidence,
                   VOC_Evidence_Property, MGI_Note, MGI_Reference_Assoc,
                   bcpLog, lineLog>>

\* ----------------------------------------------------------- setPrimaryKeys
\* nextval of each of the four sequences
setPrimaryKeys ==
    /\ pc = "setPrimaryKeys"
    /\ seq' = [annot |-> seq.annot + 1, evidence |-> seq.evidence + 1,
               note |-> seq.note + 1, property |-> seq.property + 1]
    /\ annotKey' = seq'.annot
    /\ evidencePrimaryKey' = seq'.evidence
    /\ noteKey' = seq'.note
    /\ propertyKey' = seq'.property
    /\ sqlLog' = sqlLog \o <<Stmt("nextval", "voc_annot_seq"),
                             Stmt("nextval", "voc_evidence_seq"),
                             Stmt("nextval", "mgi_note_seq"),
                             Stmt("nextval", "voc_evidence_property_seq")>>
    /\ pc' = "loadDictionaries"
    /\ UNCHANGED <<suspended, config, exitStatus, run, DEBUG, delByReferenceKey, annotTypeKey,
                   logicalDBKey, dicts, skipBCP, libDicts, locals, inputFile,
                   errorFile, sinks, VOC_Annot, VOC_Evidence,
                   VOC_Evidence_Property, MGI_Note, MGI_Reference_Assoc,
                   bcpLog, lineLog>>

\* --------------------------------------------------------- loadDictionaries
\* mutant: the qualifier left out of the annotation key
AnnotDictKey_NoQualifier(type, objectKey, termKey, qualifierKey) ==
    JoinColon(<<Str(type), Str(objectKey), Str(termKey)>>)

\* '%s:%s:%s:%s' % (annotTypeKey, objectKey, termKey, qualifierKey)
AnnotDictKey(type, objectKey, termKey, qualifierKey) ==
    JoinColon(<<Str(type), Str(objectKey), Str(termKey), Str(qualifierKey)>>)

\* mutant: the stored evidence cached under its own key, not its annotation's
StoredEvidenceKey_ByEvidenceKey(e) ==
    JoinColon(<<Str(e.key), Str(e.code), Str(e.ref)>>)

\* '%s:%s:%s' % (_Annot_key, _EvidenceTerm_key, _Refs_key): the key of a
\* stored evidence row in the evidence dictionary
StoredEvidenceKey(e) ==
    JoinColon(<<Str(e.annot), Str(e.code), Str(e.ref)>>)

\* the terms cached: all of them, or the non-obsolete ones
TermsCached ==
    { t \in TermTable : loadObsolete # "0" \/ t.isObsolete = 0 }

\* mutant: the annotations as they were at load start, before the cascade
AnnotSnapshot_BeforeCascade ==
    LET rows == { a \in {A1, A2, A3, A4} : a.type = annotTypeKey }
        K(a) == AnnotDictKey(annotTypeKey, a.object, a.term, a.qualifier)
    IN  [ k \in { K(a) : a \in rows } |->
            (CHOOSE a \in rows : K(a) = k).key ]

\* annotations of the loaded annotation type, by key text
AnnotSnapshot ==
    LET rows == { a \in VOC_Annot : a.type = annotTypeKey }
        K(a) == AnnotDictKey(annotTypeKey, a.object, a.term, a.qualifier)
    IN  [ k \in { K(a) : a \in rows } |->
            (CHOOSE a \in rows : K(a) = k).key ]

\* evidence of the annotations of the loaded annotation type
EvidenceSnapshot ==
    { StoredEvidenceKey(e) : e \in
        { e \in VOC_Evidence :
            \E a \in VOC_Annot : a.type = annotTypeKey /\ a.key = e.annot } }

loadDictionaries ==
    /\ pc = "loadDictionaries"
    /\ termDict' = [ id \in { t.accID : t \in TermsCached } |->
                       (CHOOSE t \in TermsCached : t.accID = id).key ]
    /\ pTermDict' = [ tm \in { p.term : p \in PropertyVocab } |->
                        (CHOOSE p \in PropertyVocab : p.term = tm).key ]
    /\ annotDict' = AnnotSnapshot
    /\ evidenceDict' = EvidenceSnapshot
    /\ pc' = "processStart"
    /\ UNCHANGED <<suspended, config, exitStatus, run, DEBUG, delByReferenceKey, annotTypeKey,
                   keys, logicalDBKey, objectDict, referenceDict, skipBCP,
                   libDicts, locals, inputFile, errorFile, sinks, store,
                   sqlLog, bcpLog, lineLog>>

\* entry of processFile / processMcvFile, up to the loop
processStart ==
    /\ pc = "processStart"
    /\ lineNum' = 0
    /\ objectDictLoaded' = 0
    /\ mkrKeyList' = <<>>
    /\ skipBCP' = IF isMCV THEN 0 ELSE skipBCP
    /\ pc' = "process"
    /\ UNCHANGED <<suspended, config, exitStatus, run, DEBUG, delByReferenceKey, annotTypeKey,
                   keys, logicalDBKey, dicts, libDicts, inputFile, errorFile,
                   sinks, store, sqlLog, bcpLog, lineLog>>

\* --------------------------------------------------- createAnnotationRecord
\* mutant: the counter is not advanced after a new annotation
createAnnotationRecord_KeyNotAdvanced(dict, nextKey, objectKey, termKey, qualifierKey, entryDate) ==
    LET aKey == AnnotDictKey(annotTypeKey, objectKey, termKey, qualifierKey)
    IN  IF aKey \in DOMAIN dict
        THEN [useAnnotKey |-> dict[aKey], annotDict |-> dict,
              annotKey |-> nextKey, rows |-> <<>>]
        ELSE [useAnnotKey |-> nextKey,
              annotDict |-> (aKey :> nextKey) @@ dict,
              annotKey |-> nextKey,
              rows |-> <<AnnotRow(nextKey, annotTypeKey, objectKey, termKey,
                                  qualifierKey, entryDate)>>]

\* dict, nextKey: the annotation dictionary and key counter the call finds.
\* Returns the annotation key to use, the dictionary and counter it leaves
\* and the rows written to the annotation file.
createAnnotationRecord(dict, nextKey, objectKey, termKey, qualifierKey, entryDate) ==
    LET aKey == AnnotDictKey(annotTypeKey, objectKey, termKey, qualifierKey)
    IN  IF aKey \in DOMAIN dict
        THEN [useAnnotKey |-> dict[aKey], annotDict |-> dict,
              annotKey |-> nextKey, rows |-> <<>>]
        ELSE [useAnnotKey |-> nextKey,
              annotDict |-> (aKey :> nextKey) @@ dict,
              annotKey |-> nextKey + 1,
              rows |-> <<AnnotRow(nextKey, annotTypeKey, objectKey, termKey,
                                  qualifierKey, entryDate)>>]

\* ----------------------------------------------------- createEvidenceRecord
\* mutant: the annotation key left out of the key
EvidenceDictKey_NoAnnotation(newAnnotKey, evidenceKey, referenceKey, properties, inferredFrom, notes) ==
    JoinColon(<<Str(evidenceKey), Str(referenceKey)>>)

\* mutant: every text field in the key, whatever the load type
EvidenceDictKey_AllFields(newAnnotKey, evidenceKey, referenceKey, properties, inferredFrom, notes) ==
    JoinColon(<<Str(newAnnotKey), Str(evidenceKey), Str(referenceKey),
                properties, inferredFrom, notes>>)

\* the key of the duplicate check, by load type
EvidenceDictKey(newAnnotKey, evidenceKey, referenceKey, properties, inferredFrom, notes) ==
    IF isMP \/ isOMIMHPO
    THEN JoinColon(<<Str(newAnnotKey), Str(evidenceKey), Str(referenceKey),
                     properties>>)
    ELSE IF isMPMarker \/ isMPAllele
    THEN JoinColon(<<Str(newAnnotKey), Str(evidenceKey), Str(referenceKey),
                     properties, notes>>)
    ELSE IF isGO \/ isDiseaseMarker \/ isDiseaseAllele
    THEN JoinColon(<<Str(newAnnotKey), Str(evidenceKey), Str(referenceKey),
                     properties, inferredFrom>>)
    ELSE JoinColon(<<Str(newAnnotKey), Str(evidenceKey), Str(referenceKey)>>)

StanzaSep == <<"&", "=", "=", "=", "&">>
PairSep == <<"&", "=", "=", "&">>
TermSep == <<"&", "=", "&">>

\* mutant: the sequence number counts the pairs that are dropped as well
PropertyPair_CountsDropped(acc, p, stanza, c) ==
    LET parts == Split(p, TermSep)
    IN  IF acc.raised THEN acc
        ELSE IF Len(parts) # 2 THEN [acc EXCEPT !.raised = TRUE]
        ELSE IF parts[1] \in DOMAIN pTermDict
        THEN [acc EXCEPT
                !.rows = Append(@, PropertyRow(acc.propertyKey, c.evidenceKey,
                                     pTermDict[parts[1]], stanza, acc.seqnum,
                                     parts[2], c.editorKey, c.entryDate)),
                !.seqnum = @ + 1,
                !.propertyKey = @ + 1]
        ELSE [acc EXCEPT
                !.seqnum = @ + 1,
                !.errors = Append(@, ErrorEntry("Invalid Property", c.lineNum,
                                                parts[1], c.line))]

\* one property/value pair p of a stanza.  acc: the rows and errors written
\* so far, the property key and sequence number, and whether the unpacking of
\* an earlier pair raised; c: the evidence key, editor, date and line.
PropertyPair(acc, p, stanza, c) ==
    LET parts == Split(p, TermSep)
    IN  IF acc.raised THEN acc
        ELSE IF Len(parts) # 2 THEN [acc EXCEPT !.raised = TRUE]
        ELSE IF parts[1] \in DOMAIN pTermDict
        THEN [acc EXCEPT
                !.rows = Append(@, PropertyRow(acc.propertyKey, c.evidenceKey,
                                     pTermDict[parts[1]], stanza, acc.seqnum,
                                     parts[2], c.editorKey, c.entryDate)),
                !.seqnum = @ + 1,
                !.propertyKey = @ + 1]
        ELSE [acc EXCEPT
                !.errors = Append(@, ErrorEntry("Invalid Property", c.lineNum,
                                                parts[1], c.line))]

\* mutant: a term that is not a property ends the stanza
RECURSIVE PropertyPairs_StopAtInvalid(_, _, _, _)
PropertyPairs_StopAtInvalid(acc, pairs, stanza, c) ==
    IF pairs = <<>> THEN acc
    ELSE IF Split(Head(pairs), TermSep)[1] \notin DOMAIN pTermDict
    THEN PropertyPair(acc, Head(pairs), stanza, c)
    ELSE PropertyPairs_StopAtInvalid(PropertyPair(acc, Head(pairs), stanza, c),
                                     Tail(pairs), stanza, c)

RECURSIVE PropertyPairs(_, _, _, _)
PropertyPairs(acc, pairs, stanza, c) ==
    IF pairs = <<>> THEN acc
    ELSE PropertyPairs(PropertyPair(acc, Head(pairs), stanza, c),
                       Tail(pairs), stanza, c)

\* mutant: the sequence number runs on from stanza to stanza
RECURSIVE PropertyStanzas_NoRestart(_, _, _, _)
PropertyStanzas_NoRestart(acc, stanzas, stanza, c) ==
    IF stanzas = <<>> THEN acc
    ELSE PropertyStanzas_NoRestart(
            PropertyPairs(acc, Split(Head(stanzas), PairSep), stanza, c),
            Tail(stanzas), stanza + 1, c)

RECURSIVE PropertyStanzas(_, _, _, _)
PropertyStanzas(acc, stanzas, stanza, c) ==
    IF stanzas = <<>> THEN acc
    ELSE PropertyStanzas(
            PropertyPairs([acc EXCEPT !.seqnum = 1],
                          Split(Head(stanzas), PairSep), stanza, c),
            Tail(stanzas), stanza + 1, c)

\* the property rows of a blob
PropertyRows(properties, pKey, c) ==
    LET acc0 == [rows |-> <<>>, errors |-> <<>>, propertyKey |-> pKey,
                 seqnum |-> 1, raised |-> FALSE]
    IN  IF Len(properties) > 0
        THEN PropertyStanzas(acc0, Split(properties, StanzaSep), 1, c)
        ELSE acc0

\* evidence record may exist in our dictionary already
IsDuplicate(eKey, eDict) == eKey \in eDict

\* mutant: an accepted key is not registered
EvidenceDictAfter_NotRegistered(eDict, eKey) == eDict

\* not a duplicate: evidenceDict[eKey] = eKey
EvidenceDictAfter(eDict, eKey) == eDict \cup {eKey}

\* eDict: the evidence dictionary the call finds.  Returns what the call
\* leaves and writes; raised: the unpacking of a property pair raised
\* ValueError, which nothing catches.
createEvidenceRecord(eDict, newAnnotKey, evidenceKey, referenceKey, inferredFrom, editorKey, notes, properties, entryDate, line, n) ==
    LET eKey == EvidenceDictKey(newAnnotKey, evidenceKey, referenceKey,
                                properties, inferredFrom, notes)
        hasNote == Len(notes) > 0
        props == PropertyRows(properties, propertyKey,
                    [evidenceKey |-> evidencePrimaryKey, editorKey |-> editorKey,
                     entryDate |-> entryDate, line |-> line, lineNum |-> n])
    IN  IF IsDuplicate(eKey, eDict)
        THEN [eKey |-> eKey, duplicate |-> TRUE, raised |-> FALSE,
              evidenceDict |-> eDict,
              evidenceRows |-> <<>>, noteRows |-> <<>>, propertyRows |-> <<>>,
              errors |-> <<ErrorEntry("Duplicate evidence", n, <<>>, line)>>,
              evidencePrimaryKey |-> evidencePrimaryKey,
              noteKey |-> noteKey, propertyKey |-> propertyKey]
        ELSE [eKey |-> eKey, duplicate |-> FALSE, raised |-> props.raised,
              evidenceDict |-> EvidenceDictAfter(eDict, eKey),
              evidenceRows |-> <<EvidenceRow(evidencePrimaryKey, newAnnotKey,
                                    evidenceKey, referenceKey, inferredFrom,
                                    editorKey, entryDate)>>,
              noteRows |-> IF hasNote
                           THEN <<NoteRow(noteKey, evidencePrimaryKey,
                                          mgiNoteObjectKey, mgiNoteTypeKey,
                                          notes, editorKey, entryDate)>>
                           ELSE <<>>,
              propertyRows |-> props.rows,
              errors |-> props.errors,
              evidencePrimaryKey |-> IF props.raised THEN evidencePrimaryKey
                                     ELSE evidencePrimaryKey + 1,
              noteKey |-> IF hasNote THEN noteKey + 1 ELSE noteKey,
              propertyKey |-> props.propertyKey]

\* ------------------------------------------------------------ line loops
\* mutant: a line that cannot be split into nine columns is skipped
InvalidLine_Skipped == UNCHANGED <<pc, exitStatus>>

\* except: exit(1, 'Invalid Line')
InvalidLine == Exit(1)

\* The file is read line by line; a line not read before is drawn from the
\* set L (a file of at most max lines), a line of a file read by an earlier
\* run is read again.
NextLines(L, max) ==
    IF lineNum < Len(inputFile) THEN {inputFile[lineNum + 1]}
    ELSE IF run = 1 /\ Len(inputFile) < max THEN L
    ELSE {}

FileAfterRead(line) ==
    IF lineNum < Len(inputFile) THEN inputFile ELSE Append(inputFile, line)

\* the tokens of a line (both loops); strip10: whether column 10 is stripped
Tokens(line, strip10) ==
    [termID |-> line[1],
     objectID |-> line[2],
     jnum |-> line[3],
     evidence |-> line[4],
     inferredFrom |-> Strip(line[5]),
     qualifier |-> Strip(line[6]),
     editor |-> Strip(line[7]),
     entryDate |-> Strip(line[8]),
     notes |-> Strip(line[9]),
     col10 |-> IF Len(line) > 9
               THEN get_LogicalDB_key(IF strip10 THEN Strip(line[10]) ELSE line[10])
               ELSE 0,
     properties |-> IF Len(line) > 10 THEN Strip(line[11]) ELSE <<>>]

\* loadObjectDict: the preferred IDs of the logical DB, added to the dictionary
loadObjectDict(dict, ldb) ==
    LET rows == { a \in AccessionTable : a.ldb = ldb /\ a.preferred = 1 }
        ids == { a.accID : a \in rows }
    IN  [ id \in ids \cup DOMAIN dict |->
            IF id \in ids THEN (CHOOSE a \in rows : a.accID = id).key
            ELSE dict[id] ]

\* mutant: the verifications stop at the first that fails
Verify_FirstFailureOnly(tk, oDict, ldb, n, line) ==
    LET t == verifyTerm(tk.termID, n, line)
        o == IF t.key = 0
             THEN [key |-> 0, errors |-> <<>>, objectDict |-> oDict]
             ELSE verifyObject(oDict, tk.objectID, ldb, n, line)
        r == IF o.key = 0
             THEN [key |-> 0, errors |-> <<>>]
             ELSE verifyReference(tk.jnum, n, line)
        e == IF r.key = 0
             THEN [key |-> 0, errors |-> <<>>, ecodeDict |-> ecodeDict]
             ELSE verifyEvidence(ecodeDict, tk.evidence, n)
        q == IF e.key = 0
             THEN [key |-> 0, errors |-> <<>>, qualifierDict |-> qualifierDict]
             ELSE verifyQualifier(qualifierDict, tk.qualifier, 0, n)
        u == IF q.key = 0
             THEN [key |-> 0, errors |-> <<>>]
             ELSE verifyUser(tk.editor, n)
    IN  [term |-> t, object |-> o, reference |-> r, evidence |-> e,
         qualifier |-> q, editor |-> u]

\* the six verifications of a line, all of them called
Verify(tk, oDict, ldb, n, line) ==
    [term |-> verifyTerm(tk.termID, n, line),
     object |-> verifyObject(oDict, tk.objectID, ldb, n, line),
     reference |-> verifyReference(tk.jnum, n, line),
     evidence |-> verifyEvidence(ecodeDict, tk.evidence, n),
     qualifier |-> verifyQualifier(qualifierDict, tk.qualifier, 0, n),
     editor |-> verifyUser(tk.editor, n)]

\* what the six calls wrote to the error file, in call order
VerifyErrors(v) ==
    v.term.errors \o v.object.errors \o v.reference.errors
    \o v.evidence.errors \o v.qualifier.errors \o v.editor.errors

\* mutant: an unresolved editor does not reject the line
Rejected_NoEditor(termKey, objectKey, referenceKey, evidenceKey, qualifierKey, editorKey) ==
    \/ termKey = 0
    \/ objectKey = 0
    \/ referenceKey = 0
    \/ evidenceKey = 0
    \/ qualifierKey = 0

\* if any verification failed, the line is an error
Rejected(termKey, objectKey, referenceKey, evidenceKey, qualifierKey, editorKey) ==
    \/ termKey = 0
    \/ objectKey = 0
    \/ referenceKey = 0
    \/ evidenceKey = 0
    \/ qualifierKey = 0
    \/ editorKey = 0

LineRejected(v) ==
    Rejected(v.term.key, v.object.key, v.reference.key, v.evidence.key,
             v.qualifier.key, v.editor.key)

\* mutant: the date of the line, blank or not
EntryDate_AsGiven(d) == d

\* If the entry date is not given, use the current date
EntryDate(d) == IF Len(d) = 0 THEN loaddate ELSE d

\* the record of a line in lineLog.  outcome: "short" (fewer than 9 columns),
\* "deleteOnly", "rejected", "duplicate", "raised", "accepted"
LineEntry(loop, n, outcome, tk, v, a, ev, entryDate) ==
    [run |-> run, loop |-> loop, lineNum |-> n, outcome |-> outcome,
     termKey |-> v.term.key, objectKey |-> v.object.key,
     referenceKey |-> v.reference.key, evidenceKey |-> v.evidence.key,
     qualifierKey |-> v.qualifier.key, editorKey |-> v.editor.key,
     inferredFrom |-> tk.inferredFrom, notes |-> tk.notes,
     properties |-> tk.properties, entryDate |-> entryDate,
     newAnnotKey |-> a.useAnnotKey, eKey |-> ev.eKey,
     annotRows |-> a.rows, evidenceRows |-> ev.evidenceRows,
     noteRows |-> ev.noteRows, propertyRows |-> ev.propertyRows,
     errors |-> VerifyErrors(v) \o ev.errors]

NoTokens ==
    [termID |-> <<>>, objectID |-> <<>>, jnum |-> <<>>, evidence |-> <<>>,
     inferredFrom |-> <<>>, qualifier |-> <<>>, editor |-> <<>>,
     entryDate |-> <<>>, notes |-> <<>>, col10 |-> 0, properties |-> <<>>]

NoKey == [key |-> 0, errors |-> <<>>]

NoVerify ==
    [term |-> NoKey, object |-> NoKey, reference |-> NoKey, evidence |-> NoKey,
     qualifier |-> NoKey, editor |-> NoKey]

NoAnnot == [useAnnotKey |-> 0, rows |-> <<>>]

NoEvidence ==
    [eKey |-> <<>>, evidenceRows |-> <<>>, noteRows |-> <<>>,
     propertyRows |-> <<>>, errors |-> <<>>]

\* one iteration of the loop of processFile
processFile(L, max) ==
    /\ pc = "process"
    /\ ~ isMCV
    /\ \E line \in NextLines(L, max) :
        LET n == lineNum + 1
        IN  /\ inputFile' = FileAfterRead(line)
            /\ lineNum' = n
            /\ IF Len(line) < 9
               THEN /\ InvalidLine
                    /\ lineLog' = Append(lineLog,
                          LineEntry("file", n, "short", NoTokens, NoVerify,
                                    NoAnnot, NoEvidence, <<>>))
                    /\ UNCHANGED <<logicalDBKey, objectDictLoaded, objectDict,
                                   ecodeDict, qualifierDict, errorFile,
                                   annotDict, annotKey, evidenceDict,
                                   evidencePrimaryKey, noteKey, propertyKey,
                                   sinks, skipBCP>>
               ELSE
                 \E tk \in {Tokens(line, TRUE)} :
                 \E ldb \in {IF tk.col10 # 0 THEN tk.col10 ELSE logicalDBKey} :
                 \E v \in {Verify(tk, IF objectDictLoaded = 0
                                      THEN loadObjectDict(objectDict, ldb)
                                      ELSE objectDict, ldb, n, line)} :
                 \E entryDate \in {EntryDate(tk.entryDate)} :
                    /\ logicalDBKey' = ldb
                    /\ objectDictLoaded' = 1
                    /\ objectDict' = v.object.objectDict
                    /\ ecodeDict' = v.evidence.ecodeDict
                    /\ qualifierDict' = v.qualifier.qualifierDict
                    /\ IF LineRejected(v)
                       THEN /\ errorFile' = errorFile \o VerifyErrors(v)
                            /\ lineLog' = Append(lineLog,
                                  LineEntry("file", n, "rejected", tk, v,
                                            NoAnnot, NoEvidence, entryDate))
                            /\ UNCHANGED <<pc, exitStatus, annotDict, annotKey,
                                           evidenceDict, evidencePrimaryKey,
                                           noteKey, propertyKey, sinks, skipBCP>>
                       ELSE
                         \E a \in {createAnnotationRecord(annotDict, annotKey,
                                      v.object.key, v.term.key, v.qualifier.key,
                                      entryDate)} :
                         \E ev \in {createEvidenceRecord(evidenceDict,
                                      a.useAnnotKey, v.evidence.key,
                                      v.reference.key, tk.inferredFrom,
                                      v.editor.key, tk.notes, tk.properties,
                                      entryDate, line, n)} :
                            /\ errorFile' = errorFile \o VerifyErrors(v) \o ev.errors
                            /\ annotDict' = a.annotDict
                            /\ annotKey' = a.annotKey
                            /\ annotFile' = annotFile \o a.rows
                            /\ evidenceDict' = ev.evidenceDict
                            /\ evidencePrimaryKey' = ev.evidencePrimaryKey
                            /\ noteKey' = ev.noteKey
                            /\ propertyKey' = ev.propertyKey
                            /\ evidenceFile' = evidenceFile \o ev.evidenceRows
                            /\ noteFile' = noteFile \o ev.noteRows
                            /\ propertyFile' = propertyFile \o ev.propertyRows
                            /\ lineLog' = Append(lineLog,
                                  LineEntry("file", n,
                                      IF ev.duplicate THEN "duplicate"
                                      ELSE IF ev.raised THEN "raised"
                                      ELSE "accepted",
                                      tk, v, a, ev, entryDate))
                            /\ IF ev.raised
                               THEN \* uncaught ValueError
                                    Exit(1) /\ UNCHANGED skipBCP
                               ELSE /\ skipBCP' = 0
                                    /\ UNCHANGED <<pc, exitStatus>>
    /\ UNCHANGED <<suspended, config, run, DEBUG, delByReferenceKey, annotTypeKey, termDict,
                   referenceDict, pTermDict, mkrKeyList, store, sqlLog, bcpLog>>

\* mutant: the annotations of the marker deleted under every annotation type
AnnotAfterMarkerDelete_AnyType(markerKey) ==
    { a \in VOC_Annot : a.object # markerKey }

\* delete from VOC_Annot where _AnnotType_key = %s and _Object_key = %s;
\* the evidence of a deleted annotation and its properties go with it
\* (foreign keys of the schema, on delete cascade)
AnnotAfterMarkerDelete(markerKey) ==
    { a \in VOC_Annot : ~ (a.type = annotTypeKey /\ a.object = markerKey) }

EvidenceAfterMarkerDelete(markerKey) ==
    { e \in VOC_Evidence :
        \E a \in AnnotAfterMarkerDelete(markerKey) : a.key = e.annot }

PropertiesAfterMarkerDelete(markerKey) ==
    { p \in VOC_Evidence_Property :
        \E e \in EvidenceAfterMarkerDelete(markerKey) : e.key = p.evidence }

\* db.sql(deleteSQL % (annotTypeKey, markerKey), None)
MarkerDelete(markerKey) ==
    /\ VOC_Annot' = AnnotAfterMarkerDelete(markerKey)
    /\ VOC_Evidence' = EvidenceAfterMarkerDelete(markerKey)
    /\ VOC_Evidence_Property' = PropertiesAfterMarkerDelete(markerKey)
    /\ sqlLog' = Append(sqlLog, Stmt("delete VOC_Annot", "marker"))

\* del annotDict[aKey]
DictWithout(dict, k) == [ x \in DOMAIN dict \ {k} |-> dict[x] ]

\* a line with only an MGI ID: delete all annotations of the marker
DeleteOnly(tk) ==
    /\ tk.termID = <<>>
    /\ tk.jnum = <<>>
    /\ tk.evidence = <<>>
    /\ tk.qualifier = <<>>
    /\ tk.editor = <<>>

\* one iteration of the loop of processMcvFile
processMcvFile(L, max) ==
    /\ pc = "process"
    /\ isMCV
    /\ \E line \in NextLines(L, max) :
        LET n == lineNum + 1
        IN  /\ inputFile' = FileAfterRead(line)
            /\ lineNum' = n
            /\ IF Len(line) < 9
               THEN /\ InvalidLine
                    /\ lineLog' = Append(lineLog,
                          LineEntry("mcv", n, "short", NoTokens, NoVerify,
                                    NoAnnot, NoEvidence, <<>>))
                    /\ UNCHANGED <<logicalDBKey, objectDict, ecodeDict,
                                   qualifierDict, errorFile, annotDict, annotKey,
                                   evidenceDict, evidencePrimaryKey, noteKey,
                                   propertyKey, sinks, mkrKeyList, VOC_Annot,
                                   VOC_Evidence, VOC_Evidence_Property, sqlLog>>
               ELSE
                 \E tk \in {Tokens(line, FALSE)} :
                 \E ldb \in {IF tk.col10 # 0 THEN tk.col10 ELSE logicalDBKey} :
                 IF DeleteOnly(tk)
                 THEN \* only an MGI ID: delete the marker's annotations
                   \E m \in {verifyObject(objectDict, tk.objectID, ldb, n, line)} :
                    /\ logicalDBKey' = ldb
                    /\ objectDict' = m.objectDict
                    /\ errorFile' = errorFile \o m.errors
                    /\ IF m.key # 0
                       THEN MarkerDelete(m.key)
                       ELSE UNCHANGED <<VOC_Annot, VOC_Evidence,
                                        VOC_Evidence_Property, sqlLog>>
                    /\ lineLog' = Append(lineLog,
                          LineEntry("mcv", n, "deleteOnly", tk,
                                    [NoVerify EXCEPT !.object =
                                        [key |-> m.key, errors |-> m.errors]],
                                    NoAnnot, NoEvidence, <<>>))
                    /\ UNCHANGED <<pc, exitStatus, ecodeDict, qualifierDict,
                                   annotDict, annotKey, evidenceDict,
                                   evidencePrimaryKey, noteKey, propertyKey,
                                   sinks, mkrKeyList>>
                 ELSE
                   \E v \in {Verify(tk, objectDict, ldb, n, line)} :
                    /\ logicalDBKey' = ldb
                    /\ objectDict' = v.object.objectDict
                    /\ ecodeDict' = v.evidence.ecodeDict
                    /\ qualifierDict' = v.qualifier.qualifierDict
                    /\ IF LineRejected(v)
                       THEN /\ errorFile' = errorFile \o VerifyErrors(v)
                            /\ lineLog' = Append(lineLog,
                                  LineEntry("mcv", n, "rejected", tk, v,
                                            NoAnnot, NoEvidence, <<>>))
                            /\ UNCHANGED <<pc, exitStatus, annotDict, annotKey,
                                           evidenceDict, evidencePrimaryKey,
                                           noteKey, propertyKey, sinks,
                                           mkrKeyList, VOC_Annot, VOC_Evidence,
                                           VOC_Evidence_Property, sqlLog>>
                       ELSE
                         \E entryDate \in {EntryDate(tk.entryDate)} :
                         \E a \in {createAnnotationRecord(
                                      DictWithout(annotDict,
                                          AnnotDictKey(annotTypeKey, v.object.key,
                                              v.term.key, v.qualifier.key)),
                                      annotKey, v.object.key, v.term.key,
                                      v.qualifier.key, entryDate)} :
                         \E ev \in {createEvidenceRecord(evidenceDict,
                                      a.useAnnotKey, v.evidence.key,
                                      v.reference.key, tk.inferredFrom,
                                      v.editor.key, tk.notes, tk.properties,
                                      entryDate, line, n)} :
                            \* first delete if the marker was not seen before
                            /\ IF v.object.key \in Range(mkrKeyList)
                               THEN UNCHANGED <<mkrKeyList, VOC_Annot, VOC_Evidence,
                                                VOC_Evidence_Property, sqlLog>>
                               ELSE /\ MarkerDelete(v.object.key)
                                    /\ mkrKeyList' = Append(mkrKeyList, v.object.key)
                            /\ errorFile' = errorFile \o VerifyErrors(v) \o ev.errors
                            /\ annotDict' = a.annotDict
                            /\ annotKey' = a.annotKey
                            /\ annotFile' = annotFile \o a.rows
                            /\ evidenceDict' = ev.evidenceDict
                            /\ evidencePrimaryKey' = ev.evidencePrimaryKey
                            /\ noteKey' = ev.noteKey
                            /\ propertyKey' = ev.propertyKey
                            /\ evidenceFile' = evidenceFile \o ev.evidenceRows
                            /\ noteFile' = noteFile \o ev.noteRows
                            /\ propertyFile' = propertyFile \o ev.propertyRows
                            /\ lineLog' = Append(lineLog,
                                  LineEntry("mcv", n,
                                      IF ev.duplicate THEN "duplicate"
                                      ELSE IF ev.raised THEN "raised"
                                      ELSE "accepted",
                                      tk, v, a, ev, entryDate))
                            /\ IF ev.raised
                               THEN Exit(1)
                               ELSE UNCHANGED <<pc, exitStatus>>
    /\ UNCHANGED <<suspended, config, run, DEBUG, delByReferenceKey, annotTypeKey, termDict,
                   referenceDict, pTermDict, skipBCP, objectDictLoaded,
                   MGI_Note, MGI_Reference_Assoc, seq, bcpLog>>

\* mutant: the loop does not end with the file
endOfFile_Never ==
    /\ pc = "never"
    /\ UNCHANGED vars

\* the loop ends with the file
endOfFile ==
    /\ pc = "process"
    /\ lineNum = Len(inputFile)
    /\ pc' = "bcpFiles"
    /\ UNCHANGED <<suspended, config, exitStatus, run, DEBUG, delByReferenceKey, annotTypeKey,
                   keys, logicalDBKey, dicts, skipBCP, libDicts, locals,
                   inputFile, errorFile, sinks, store, sqlLog, bcpLog, lineLog>>

\* ------------------------------------------------------------------ bcpFiles
\* mutant: the sequence is not set to the highest key after the bulk load
SetVal_Stale(current, rows) == current

\* setval(sequence, max(key) of the table); an empty table leaves it alone
SetVal(current, rows) ==
    IF rows = {} THEN current ELSE Max({ r.key : r \in rows })

\* mutant: the bulk load does not look at DEBUG
BulkLoads_IgnoresDebug == skipBCP = 0

\* whether bcpFiles goes on to the bulk load
BulkLoads == DEBUG = 0 /\ skipBCP = 0

BcpCall(table) == [table |-> table, run |-> run]

bcpFiles ==
    /\ pc = "bcpFiles"
    /\ IF BulkLoads
       THEN /\ VOC_Annot' = VOC_Annot \cup Range(annotFile)
            /\ VOC_Evidence' = VOC_Evidence \cup Range(evidenceFile)
            /\ MGI_Note' = MGI_Note \cup Range(noteFile)
            /\ VOC_Evidence_Property' = VOC_Evidence_Property \cup Range(propertyFile)
            /\ bcpLog' = bcpLog \o <<BcpCall("VOC_Annot"), BcpCall("VOC_Evidence"),
                                     BcpCall("MGI_Note"),
                                     BcpCall("VOC_Evidence_Property")>>
            /\ seq' = [annot |-> SetVal(seq.annot, VOC_Annot'),
                       evidence |-> SetVal(seq.evidence, VOC_Evidence'),
                       property |-> SetVal(seq.property, VOC_Evidence_Property'),
                       note |-> SetVal(seq.note, MGI_Note')]
            /\ sqlLog' = sqlLog \o <<Stmt("setval", "voc_annot_seq"),
                                     Stmt("setval", "voc_evidence_seq"),
                                     Stmt("setval", "voc_evidence_property_seq"),
                                     Stmt("setval", "mgi_note_seq")>>
       ELSE UNCHANGED <<VOC_Annot, VOC_Evidence, MGI_Note, VOC_Evidence_Property,
                        bcpLog, seq, sqlLog>>
    /\ pc' = "finished"
    /\ exitStatus' = 0
    /\ UNCHANGED <<suspended, config, run, DEBUG, delByReferenceKey, annotTypeKey, keys,
                   logicalDBKey, dicts, skipBCP, libDicts, locals, inputFile,
                   errorFile, sinks, MGI_Reference_Assoc, lineLog>>

\* the loader is started again over the same store, configuration and input
\* file: a new process, with the globals and files of a new process
nextRun ==
    /\ pc = "finished"
    /\ run < MaxRuns
    /\ run' = run + 1
    /\ pc' = "init"
    /\ exitStatus' = -1
    /\ DEBUG' = 0
    /\ delByReferenceKey' = 0
    /\ annotTypeKey' = 0
    /\ annotKey' = 0
    /\ evidencePrimaryKey' = 0
    /\ propertyKey' = 0
    /\ noteKey' = 0
    /\ logicalDBKey' = 1
    /\ termDict' = <<>>
    /\ objectDict' = <<>>
    /\ referenceDict' = <<>>
    /\ annotDict' = <<>>
    /\ evidenceDict' = {}
    /\ pTermDict' = <<>>
    /\ skipBCP' = 1
    /\ ecodeDict' = <<>>
    /\ qualifierDict' = <<>>
    /\ lineNum' = 0
    /\ objectDictLoaded' = 0
    /\ mkrKeyList' = <<>>
    /\ errorFile' = <<>>
    /\ annotFile' = <<>>
    /\ evidenceFile' = <<>>
    /\ noteFile' = <<>>
    /\ propertyFile' = <<>>
    /\ UNCHANGED <<suspended, config, inputFile, store, sqlLog, bcpLog, lineLog>>

\* ------------------------------------------------------ a second process
\* the state of the process that takes the steps: its configuration, control,
\* globals, locals and files
Process ==
    [mode |-> mode, loadType |-> loadType, annotTypeName |-> annotTypeName,
     delByReference |-> delByReference, delByUser |-> delByUser,
     loadObsolete |-> loadObsolete, pc |-> pc, exitStatus |-> exitStatus,
     run |-> run, DEBUG |-> DEBUG, delByReferenceKey |-> delByReferenceKey,
     annotTypeKey |-> annotTypeKey, annotKey |-> annotKey,
     evidencePrimaryKey |-> evidencePrimaryKey, propertyKey |-> propertyKey,
     noteKey |-> noteKey, logicalDBKey |-> logicalDBKey,
     termDict |-> termDict, objectDict |-> objectDict,
     referenceDict |-> referenceDict, annotDict |-> annotDict,
     evidenceDict |-> evidenceDict, pTermDict |-> pTermDict,
     skipBCP |-> skipBCP, ecodeDict |-> ecodeDict,
     qualifierDict |-> qualifierDict, lineNum |-> lineNum,
     objectDictLoaded |-> objectDictLoaded, mkrKeyList |-> mkrKeyList,
     inputFile |-> inputFile, errorFile |-> errorFile,
     annotFile |-> annotFile, evidenceFile |-> evidenceFile,
     noteFile |-> noteFile, propertyFile |-> propertyFile]

\* a process that has not started: the globals as the two modules set them,
\* no file opened, over its own input file
NewProcess(m, lt, typeName, ref, user, obsolete, r, file) ==
    [mode |-> m, loadType |-> lt, annotTypeName |-> typeName,
     delByReference |-> ref, delByUser |-> user \o <<"%">>,
     loadObsolete |-> obsolete, pc |-> "init", exitStatus |-> -1, run |-> r,
     DEBUG |-> 0, delByReferenceKey |-> 0, annotTypeKey |-> 0,
     annotKey |-> 0, evidencePrimaryKey |-> 0, propertyKey |-> 0,
     noteKey |-> 0, logicalDBKey |-> 1, termDict |-> <<>>,
     objectDict |-> <<>>, referenceDict |-> <<>>, annotDict |-> <<>>,
     evidenceDict |-> {}, pTermDict |-> <<>>, skipBCP |-> 1,
     ecodeDict |-> <<>>, qualifierDict |-> <<>>, lineNum |-> 0,
     objectDictLoaded |-> 0, mkrKeyList |-> <<>>, inputFile |-> file,
     errorFile |-> <<>>, annotFile |-> <<>>, evidenceFile |-> <<>>,
     noteFile |-> <<>>, propertyFile |-> <<>>]

\* The other process starts or goes on, this one waits.  The store, which
\* both work on, is what it is: the program takes no lock around a run, and
\* a value drawn from a sequence is drawn for every process.  sequential: the other process is started only
\* when this one has ended.
switch(sequential) ==
    /\ suspended.pc \notin {"none", "finished", "exited"}
    /\ sequential => pc \in {"finished", "exited"}
    /\ suspended' = Process
    /\ mode' = suspended.mode
    /\ loadType' = suspended.loadType
    /\ annotTypeName' = suspended.annotTypeName
    /\ delByReference' = suspended.delByReference
    /\ delByUser' = suspended.delByUser
    /\ loadObsolete' = suspended.loadObsolete
    /\ pc' = suspended.pc
    /\ exitStatus' = suspended.exitStatus
    /\ run' = suspended.run
    /\ DEBUG' = suspended.DEBUG
    /\ delByReferenceKey' = suspended.delByReferenceKey
    /\ annotTypeKey' = suspended.annotTypeKey
    /\ annotKey' = suspended.annotKey
    /\ evidencePrimaryKey' = suspended.evidencePrimaryKey
    /\ propertyKey' = suspended.propertyKey
    /\ noteKey' = suspended.noteKey
    /\ logicalDBKey' = suspended.logicalDBKey
    /\ termDict' = suspended.termDict
    /\ objectDict' = suspended.objectDict
    /\ referenceDict' = suspended.referenceDict
    /\ annotDict' = suspended.annotDict
    /\ evidenceDict' = suspended.evidenceDict
    /\ pTermDict' = suspended.pTermDict
    /\ skipBCP' = suspended.skipBCP
    /\ ecodeDict' = suspended.ecodeDict
    /\ qualifierDict' = suspended.qualifierDict
    /\ lineNum' = suspended.lineNum
    /\ objectDictLoaded' = suspended.objectDictLoaded
    /\ mkrKeyList' = suspended.mkrKeyList
    /\ inputFile' = suspended.inputFile
    /\ errorFile' = suspended.errorFile
    /\ annotFile' = suspended.annotFile
    /\ evidenceFile' = suspended.evidenceFile
    /\ noteFile' = suspended.noteFile
    /\ propertyFile' = suspended.propertyFile
    /\ UNCHANGED <<store, sqlLog, bcpLog, lineLog>>

\* ------------------------------------------------------------ input lines
T1 == <<"T1">>
O1 == <<"O1">>
O2 == <<"O2">>
J1 == <<"J", ":", "1">>
J2 == <<"J", ":", "2">>
E1 == <<"E1">>
U1 == <<"u", "1">>
U2 == <<"u", "2">>
PV == <<"p", "&", "=", "&", "v">>

Line9(termID, objectID, jnum, evidence, inferredFrom, qualifier, editor, date, notes) ==
    <<termID, objectID, jnum, evidence, inferredFrom, qualifier, editor, date, notes>>

BaseLine == Line9(T1, O1, J1, E1, <<>>, <<>>, U1, <<>>, <<>>)

\* lines of the load specification: the base line, changed in one field of
\* the annotation, in the fields the evidence keys are made of, in fields no
\* key is made of, one that fails a verification and the delete-only line
DedupLines ==
    { BaseLine,
      [BaseLine EXCEPT ![2] = O2],
      [BaseLine EXCEPT ![6] = <<"NOT">>],
      [BaseLine EXCEPT ![5] = <<"i">>],
      [BaseLine EXCEPT ![9] = <<"n">>],
      BaseLine \o << <<>>, PV >>,
      [BaseLine EXCEPT ![7] = <<"u", "2", " ">>, ![8] = <<"d">>],
      [BaseLine EXCEPT ![5] = <<"i">>, ![9] = <<"n">>] \o << <<"MGI">>, PV >>,
      [BaseLine EXCEPT ![1] = <<"T9">>],
      Line9(<<>>, O1, <<>>, <<>>, <<>>, <<>>, <<>>, <<>>, <<>>) }

\* lines of the validation specification: each of the six verified fields
\* valid or not, independently
AnyFieldLines ==
    { Line9(t, o, j, e, <<>>, q, u, <<>>, <<"n">>) :
        t \in {T1, <<"T9">>}, o \in {O1, <<"O9">>}, j \in {J1, <<"J", ":", "9">>},
        e \in {E1, <<"E9">>}, q \in {<<>>, <<"Q9">>}, u \in {U1, <<"u", "9">>} }

\* field 11: the texts of a list with sep between them
RECURSIVE Join(_, _)
Join(texts, sep) ==
    IF Len(texts) = 0 THEN <<>>
    ELSE IF Len(texts) = 1 THEN texts[1]
    ELSE texts[1] \o sep \o Join(Tail(texts), sep)

\* prop1&=&val1
EncodePair(pair) == pair[1] \o TermSep \o pair[2]

\* prop1&=&val1&==&prop2&=&val2
EncodeStanza(pairs) ==
    Join([k \in 1..Len(pairs) |-> EncodePair(pairs[k])], PairSep)

\* prop1&=&val1&==&prop2&=&val2&===&prop1&=&val1&==&prop2&=&val2
EncodeBlob(stanzas) ==
    Join([s \in 1..Len(stanzas) |-> EncodeStanza(stanzas[s])], StanzaSep)

\* the non-empty sequences over S of length up to n
SeqsUpTo(S, n) == UNION { [1..k -> S] : k \in 1..n }

\* property/value pairs: 'p' and 'q' are property terms, 'z' is not
PropertyPairSet ==
    { << <<"p">>, <<"v">> >>, << <<"q">>, <<"w">> >>, << <<"z">>, <<"v">> >> }

\* a stanza holds one pair or more; the blob may be empty
PropertyBlobs ==
    {<<>>} \cup SeqsUpTo(SeqsUpTo(PropertyPairSet, MaxPairs), MaxStanzas)

\* lines of the property specification: the base line with every blob in
\* field 11, with and without a note
PropertyLines ==
    { [BaseLine EXCEPT ![9] = n] \o << <<>>, EncodeBlob(b) >> :
        n \in {<<>>, <<"n">>}, b \in PropertyBlobs }

\* lines of the termination specification: a valid line, a line that fails a
\* verification, the delete-only line, a line of three columns and a line
\* whose property pair has no '&=&'
ExitLines ==
    { BaseLine,
      [BaseLine EXCEPT ![1] = <<"T9">>],
      Line9(<<>>, O1, <<>>, <<>>, <<>>, <<>>, <<>>, <<>>, <<>>),
      <<T1, O1, J1>>,
      BaseLine \o << <<>>, <<"p">> >> }

\* lines of the mode specification
ModeLines == { BaseLine, [BaseLine EXCEPT ![3] = J2] }

\* ------------------------------------------------------------ specifications
Startup ==
    \/ init
    \/ verifyAnnotType
    \/ loadReferenceDictionary
    \/ verifyMode
    \/ setPrimaryKeys
    \/ loadDictionaries
    \/ processStart

\* The load: mode append, every load type, an empty and a seeded store.
Init ==
    InitWith({"append"}, LoadTypes, {<<"X">>}, {NoReference},
             {<<"n", "o", "n", "e">>}, {"0"}, {EmptyStore, SeededStore})

Next ==
    \/ Startup
    \/ processFile(DedupLines, MaxLines)
    \/ processMcvFile(DedupLines, MaxLines)
    \/ endOfFile
    \/ bcpFiles

Spec == Init /\ [][Next]_vars

\* The verifications: every combination of valid and invalid fields.
InitValidate ==
    InitWith({"append"}, {"Standard", "mcv"}, {<<"X">>}, {NoReference},
             {<<"n", "o", "n", "e">>}, {"0"}, {EmptyStore})

NextValidate ==
    \/ Startup
    \/ processFile(AnyFieldLines, MaxBadLines)
    \/ processMcvFile(AnyFieldLines, MaxBadLines)
    \/ endOfFile
    \/ bcpFiles

SpecValidate == InitValidate /\ [][NextValidate]_vars

\* The modes and the deletion scopes, over the stores of the cascade.
InitMode ==
    InitWith({"new", "delete", "append", "preview", "bogus"}, {"Standard", "mp"},
             {<<"X">>, <<"Z">>}, {NoReference, J1, <<"J", ":", "9">>},
             {<<"n", "o", "n", "e">>, <<"u">>, U1, <<"u", "9">>}, {"0"},
             CascadeStores)

NextMode ==
    \/ Startup
    \/ processFile(ModeLines, MaxLines)
    \/ endOfFile
    \/ bcpFiles

SpecMode == InitMode /\ [][NextMode]_vars

\* Two runs in mode append, default load type, over the same input file.
InitRerun ==
    InitWith({"append"}, {"Standard"}, {<<"X">>}, {NoReference},
             {<<"n", "o", "n", "e">>}, {"0"}, {EmptyStore, SeededStore})

NextRerun ==
    \/ Startup
    \/ processFile(DedupLines \cup ModeLines, MaxLines)
    \/ endOfFile
    \/ bcpFiles
    \/ nextRun

SpecRerun == InitRerun /\ [][NextRerun]_vars

\* Mode preview: the load of Spec without the bulk load.
InitPreview ==
    InitWith({"preview"}, {"Standard", "mcv", "mp"}, {<<"X">>}, {NoReference},
             {<<"n", "o", "n", "e">>}, {"0"}, {EmptyStore, SeededStore})

NextPreview ==
    \/ Startup
    \/ processFile(DedupLines, MaxLines)
    \/ processMcvFile(DedupLines, MaxLines)
    \/ endOfFile
    \/ bcpFiles

SpecPreview == InitPreview /\ [][NextPreview]_vars

\* The properties of a line: every blob, in both line loops.
InitProps ==
    InitWith({"new"}, {"Standard", "mcv"}, {<<"X">>}, {NoReference},
             {<<"n", "o", "n", "e">>}, {"0"}, {EmptyStore})

NextProps ==
    \/ Startup
    \/ processFile(PropertyLines, MaxPropLines)
    \/ processMcvFile(PropertyLines, MaxPropLines)
    \/ endOfFile
    \/ bcpFiles

SpecProps == InitProps /\ [][NextProps]_vars

\* The qualifier lookup of the library, called by one process in either mode.
QualifierTokens == {<<>>, <<"NOT">>, <<"N">>, <<"Q9">>}

InitQualifier ==
    InitWith({"append"}, {"Standard"}, {<<"X">>}, {NoReference},
             {<<"n", "o", "n", "e">>}, {"0"}, {EmptyStore})

NextQualifier == callVerifyQualifier(QualifierTokens, MaxCalls)

SpecQualifier == InitQualifier /\ [][NextQualifier]_vars

\* Termination: every mode, a valid and an invalid annotation type, both
\* line loops.  The program is sequential: a step that can be taken is taken.
InitExit ==
    InitWith({"new", "delete", "append", "preview", "bogus"}, {"Standard", "mcv"},
             {<<"X">>, <<"Z">>}, {NoReference}, {<<"n", "o", "n", "e">>}, {"0"},
             {SeededStore})

NextExit ==
    \/ Startup
    \/ processFile(ExitLines, MaxBadLines)
    \/ processMcvFile(ExitLines, MaxBadLines)
    \/ endOfFile
    \/ bcpFiles

SpecExit == InitExit /\ [][NextExit]_vars /\ WF_vars(NextExit)

\* Two processes over one store and one annotation type, in the modes that
\* load, their steps interleaved at will.
ConcurrentLines == ModeLines \cup { [BaseLine EXCEPT ![2] = O2] }

ConcurrentFiles ==
    { <<BaseLine>>, <<[BaseLine EXCEPT ![2] = O2]>>,
      <<[BaseLine EXCEPT ![2] = O2], [BaseLine EXCEPT ![3] = J2]>> }

InitConcurrent ==
    /\ InitRun({"append", "new"}, {"Standard"}, {<<"X">>}, {NoReference},
               {<<"n", "o", "n", "e">>}, {"0"}, {EmptyStore, SeededStore})
    /\ suspended \in
          { NewProcess(m, "Standard", <<"X">>, NoReference, <<"n", "o", "n", "e">>,
                       "0", 2, f) : m \in {"append", "new"}, f \in ConcurrentFiles }

NextConcurrent ==
    \/ Startup
    \/ processFile(ConcurrentLines, MaxBadLines)
    \/ endOfFile
    \/ bcpFiles
    \/ switch(FALSE)

SpecConcurrent == InitConcurrent /\ [][NextConcurrent]_vars

\* Two runs over one store, the second started when the first has ended, in
\* every mode and both line loops; the first ends loaded, with the bulk load
\* skipped, as a preview or aborted.
SequenceLines == ModeLines \cup { [BaseLine EXCEPT ![2] = O2], <<T1, O1, J1>> }

SequenceFiles ==
    { <<BaseLine>>, <<[BaseLine EXCEPT ![2] = O2], [BaseLine EXCEPT ![3] = J2]>>,
      <<[BaseLine EXCEPT ![3] = J2], <<T1, O1, J1>> >> }

InitSequence ==
    /\ InitRun({"new", "delete", "append", "preview", "bogus"}, {"Standard", "mcv"},
               {<<"X">>}, {NoReference}, {<<"n", "o", "n", "e">>}, {"0"},
               {EmptyStore, SeededStore})
    /\ suspended \in
          { NewProcess(m, lt, <<"X">>, NoReference, <<"n", "o", "n", "e">>, "0", 2, f) :
              m \in {"new", "delete", "append", "preview"},
              lt \in {"Standard", "mcv"}, f \in SequenceFiles }

NextSequence ==
    \/ Startup
    \/ processFile(SequenceLines, MaxBadLines)
    \/ processMcvFile(SequenceLines, MaxBadLines)
    \/ endOfFile
    \/ bcpFiles
    \/ switch(TRUE)

SpecSequence == InitSequence /\ [][NextSequence]_vars

\* The evidence key over text fields that hold ':': the load types whose key
\* has two text fields, lines that differ in where the ':' of the fields is.
ColonLines ==
    { [BaseLine EXCEPT ![5] = <<"y">>] \o << <<>>, PV \o <<":", "x">> >>,
      [BaseLine EXCEPT ![5] = <<"x", ":", "y">>] \o << <<>>, PV >>,
      [BaseLine EXCEPT ![9] = <<"y">>] \o << <<>>, PV \o <<":", "x">> >>,
      [BaseLine EXCEPT ![9] = <<"x", ":", "y">>] \o << <<>>, PV >> }

InitColon ==
    InitWith({"append"},
             {"go", "diseaseMarker", "diseaseAllele", "mpMarker", "mpAllele"},
             {<<"X">>}, {NoReference}, {<<"n", "o", "n", "e">>}, {"0"}, {EmptyStore})

NextColon ==
    \/ Startup
    \/ processFile(ColonLines, MaxBadLines)
    \/ endOfFile
    \/ bcpFiles

SpecColon == InitColon /\ [][NextColon]_vars

\* The logical DB of column 10: the lines of a file name the object in the
\* default logical DB, in MGI and in EG.
NamespaceLines ==
    { BaseLine,
      BaseLine \o << <<"EG">> >>,
      [BaseLine EXCEPT ![2] = O2] \o << <<"EG">> >>,
      [BaseLine EXCEPT ![2] = <<"O3">>] \o << <<"EG">> >>,
      [BaseLine EXCEPT ![2] = <<"O3">>] \o << <<"MGI">> >> }

InitNamespace ==
    InitWith({"append"}, {"Standard", "mcv"}, {<<"X">>}, {NoReference},
             {<<"n", "o", "n", "e">>}, {"0"}, {EmptyStore})

NextNamespace ==
    \/ Startup
    \/ processFile(NamespaceLines, MaxLines)
    \/ processMcvFile(NamespaceLines, MaxLines)
    \/ endOfFile
    \/ bcpFiles

SpecNamespace == InitNamespace /\ [][NextNamespace]_vars

\* ===================================================================
\* Properties
\* ===================================================================

\* lines that passed the six verifications
Validated(e) == e.outcome \in {"accepted", "duplicate", "raised"}

\* the lines of the current run
ThisRun == { i \in DOMAIN lineLog : lineLog[i].run = run }

\* before the bulk load the store tables still are what the run found
BeforeBulkLoad == pc \in {"process", "bcpFiles"}

InAnnotSnapshot(o, t, q) ==
    \E a \in VOC_Annot :
        a.type = annotTypeKey /\ a.object = o /\ a.term = t /\ a.qualifier = q

AnnotRowsOf(o, t, q) ==
    { k \in DOMAIN annotFile :
        /\ annotFile[k].type = annotTypeKey
        /\ annotFile[k].object = o
        /\ annotFile[k].term = t
        /\ annotFile[k].qualifier = q }

SameAnnotation(e, f) ==
    /\ e.objectKey = f.objectKey
    /\ e.termKey = f.termKey
    /\ e.qualifierKey = f.qualifierKey

\* C1: in the loop of processFile, validated lines with the same
\* (annotation type, object, term, qualifier) get the same annotation key,
\* and the run writes one Annotation row for the combination when the store
\* did not hold it, none when it did; the key is the row's or the store's.
C1_OneAnnotationPerCombination ==
    (BeforeBulkLoad /\ ~ isMCV) =>
        \A i \in ThisRun :
            LET e == lineLog[i]
                rows == AnnotRowsOf(e.objectKey, e.termKey, e.qualifierKey)
            IN  Validated(e) =>
                /\ \A j \in ThisRun :
                     (Validated(lineLog[j]) /\ SameAnnotation(e, lineLog[j]))
                        => lineLog[j].newAnnotKey = e.newAnnotKey
                /\ IF InAnnotSnapshot(e.objectKey, e.termKey, e.qualifierKey)
                   THEN /\ rows = {}
                        /\ \E a \in VOC_Annot :
                             /\ a.key = e.newAnnotKey
                             /\ a.type = annotTypeKey
                             /\ a.object = e.objectKey
                             /\ a.term = e.termKey
                             /\ a.qualifier = e.qualifierKey
                   ELSE /\ Cardinality(rows) = 1
                        /\ \A k \in rows : annotFile[k].key = e.newAnnotKey

\* three validated lines: two of one new combination, one of a stored one
C1_Witness ==
    /\ pc = "bcpFiles"
    /\ ~ isMCV
    /\ \E i, j, k \in ThisRun :
        /\ i < j
        /\ Validated(lineLog[i]) /\ Validated(lineLog[j]) /\ Validated(lineLog[k])
        /\ SameAnnotation(lineLog[i], lineLog[j])
        /\ ~ InAnnotSnapshot(lineLog[i].objectKey, lineLog[i].termKey,
                             lineLog[i].qualifierKey)
        /\ InAnnotSnapshot(lineLog[k].objectKey, lineLog[k].termKey,
                           lineLog[k].qualifierKey)
        /\ lineLog[i].newAnnotKey = lineLog[j].newAnnotKey
        /\ Len(annotFile) = 1

DuplicateEntries(n) ==
    { k \in DOMAIN errorFile :
        errorFile[k].kind = "Duplicate evidence" /\ errorFile[k].lineNum = n }

KeyFields(e) ==
    <<e.newAnnotKey, e.evidenceKey, e.referenceKey>>
    \o (IF loadType \in {"mp", "omimhpo", "mpMarker", "mpAllele", "go",
                         "diseaseMarker", "diseaseAllele"}
        THEN <<e.properties>> ELSE <<>>)
    \o (IF loadType \in {"mpMarker", "mpAllele"} THEN <<e.notes>> ELSE <<>>)
    \o (IF loadType \in {"go", "diseaseMarker", "diseaseAllele"}
        THEN <<e.inferredFrom>> ELSE <<>>)

MatchesStored(e, s) ==
    /\ s.annot = e.newAnnotKey
    /\ s.code = e.evidenceKey
    /\ s.ref = e.referenceKey
    /\ (loadType \in {"mp", "omimhpo", "mpMarker", "mpAllele", "go",
                      "diseaseMarker", "diseaseAllele"})
         => /\ e.properties = <<>>
            /\ ~ \E p \in VOC_Evidence_Property : p.evidence = s.key
    /\ (loadType \in {"mpMarker", "mpAllele"})
         => /\ e.notes = <<>>
            /\ ~ \E n \in MGI_Note :
                   n.object = s.key /\ n.mgiType = mgiNoteObjectKey
    /\ (loadType \in {"go", "diseaseMarker", "diseaseAllele"})
         => e.inferredFrom = s.inferredFrom

\* C3: under every load type, a validated line whose key fields equal those
\* of an Evidence row that the store held when the load started writes no
\* Evidence row and one 'Duplicate evidence' entry.
C3_DuplicateOfStoredEvidence ==
    BeforeBulkLoad =>
        \A i \in ThisRun :
            ( /\ Validated(lineLog[i])
              /\ \E s \in VOC_Evidence : MatchesStored(lineLog[i], s) )
            => /\ lineLog[i].evidenceRows = <<>>
               /\ Cardinality(DuplicateEntries(lineLog[i].lineNum)) = 1

Logged == lineLog'[Len(lineLog')]

\* a step of a line loop that verified the six fields of a line
VerifiedLine ==
    /\ Len(lineLog') = Len(lineLog) + 1
    /\ Logged.outcome \notin {"short", "deleteOnly"}

\* C6: a line on which one of the six verifications (term, object,
\* reference, evidence code, qualifier, editor) returns 0 writes no
\* Annotation, Evidence, Note or Property row and leaves the annotation
\* dictionary, the evidence dictionary and the four key counters as they
\* were; the loop goes on to the next line.
C6_RejectedLineChangesNothing ==
    [][ ( /\ VerifiedLine
          /\ \E k \in {Logged.termKey, Logged.objectKey, Logged.referenceKey,
                       Logged.evidenceKey, Logged.qualifierKey,
                       Logged.editorKey} : k = 0 )
        => /\ UNCHANGED <<annotFile, evidenceFile, noteFile, propertyFile>>
           /\ UNCHANGED <<annotDict, evidenceDict>>
           /\ UNCHANGED <<annotKey, evidencePrimaryKey, propertyKey, noteKey>>
           /\ pc' = "process"
           /\ exitStatus' = exitStatus ]_vars

\* a line with only the editor unresolved is followed by an accepted line:
\* the accepted line has the first keys of the run
C6_Witness ==
    \E i, j \in ThisRun :
        /\ i < j
        /\ lineLog[i].outcome = "rejected"
        /\ lineLog[i].editorKey = 0
        /\ lineLog[i].termKey # 0
        /\ lineLog[i].objectKey # 0
        /\ lineLog[i].referenceKey # 0
        /\ lineLog[i].evidenceKey # 0
        /\ lineLog[i].qualifierKey # 0
        /\ lineLog[j].outcome = "accepted"
        /\ lineLog[j].newAnnotKey = SeqStart + 1
        /\ Len(annotFile) = 1

\* the entries of the error file of one kind for one line
FieldErrors(n, kind) ==
    { k \in DOMAIN errorFile :
        errorFile[k].kind = kind /\ errorFile[k].lineNum = n }

\* an unresolved field has one entry, with the value of the field
OneEntry(key, n, kind, value) ==
    key = 0 =>
        /\ Cardinality(FieldErrors(n, kind)) = 1
        /\ \A k \in FieldErrors(n, kind) : errorFile[k].value = value

TermErrorKind ==
    IF loadObsolete = "0" THEN "Invalid or Obsolete Term" ELSE "Invalid Term"

\* C7: every verification of a line is called whatever the others returned:
\* the error file has one entry for each unresolved field among term, object,
\* reference, evidence code and qualifier, with the line number and the value
\* that did not resolve.
C7_EveryUnresolvedFieldLogged ==
    \A i \in ThisRun :
        LET e == lineLog[i]
            n == e.lineNum
            line == inputFile[n]
        IN  e.outcome \notin {"short", "deleteOnly"} =>
            /\ OneEntry(e.termKey, n, TermErrorKind, line[1])
            /\ OneEntry(e.objectKey, n, "Invalid Object", line[2])
            /\ OneEntry(e.referenceKey, n, "Invalid Reference", line[3])
            /\ OneEntry(e.evidenceKey, n, "Invalid Evidence Code", line[4])
            /\ OneEntry(e.qualifierKey, n, "Invalid Qualifier", Strip(line[6]))

\* a line with the five fields unresolved and its five entries
C7_Witness ==
    \E i \in ThisRun :
        /\ lineLog[i].outcome = "rejected"
        /\ lineLog[i].termKey = 0
        /\ lineLog[i].objectKey = 0
        /\ lineLog[i].referenceKey = 0
        /\ lineLog[i].evidenceKey = 0
        /\ lineLog[i].qualifierKey = 0
        /\ Cardinality({ k \in DOMAIN errorFile :
                           errorFile[k].lineNum = lineLog[i].lineNum }) >= 5

\* the step of verifyMode in a mode that deletes
CascadeStep(modes) == pc = "verifyMode" /\ pc' # pc /\ mode \in modes

\* the key of the reference token of the configuration, 0 if it has none
ScopeReferenceKey ==
    IF delByReference \in DOMAIN ReferenceTable
    THEN ReferenceTable[delByReference] ELSE 0

TypeOfEvidence(e) ==
    { a.type : a \in { a \in VOC_Annot : a.key = e.annot } }

\* the curator token of the configuration
ScopeUser == SubSeq(delByUser, 1, Len(delByUser) - 1)

\* the evidence of the loaded annotation type that a scope selects
EvidenceInScope(scope) ==
    { e \in VOC_Evidence :
        /\ annotTypeKey \in TypeOfEvidence(e)
        /\ scope = "reference" => e.ref = ScopeReferenceKey
        /\ scope = "user" =>
             \E login \in DOMAIN UserTable :
                UserTable[login] = e.createdBy /\ StartsWith(login, ScopeUser) }

\* what the step sent to the store
Sent == SubSeq(sqlLog', Len(sqlLog) + 1, Len(sqlLog'))

ScopesUsed ==
    SelectSeq(Sent, LAMBDA st : st.stmt = "create toDelete")

\* C8: in mode new or delete the scope of the deletion is the reference when
\* the reference token is not 'J:0', curator token given or not; else the
\* curator login prefix when the curator token is not 'none'; else all the
\* evidence of the annotation type.  One scope is used, and the evidence it
\* selects is what is deleted.
C8_ScopePrecedence ==
    [][ CascadeStep({"new", "delete"}) =>
          LET scope == IF delByReference # <<"J", ":", "0">> THEN "reference"
                       ELSE IF ScopeUser # <<"n", "o", "n", "e">> THEN "user"
                       ELSE "all"
          IN  /\ Len(ScopesUsed) = 1
              /\ ScopesUsed[1].arg = scope
              /\ VOC_Evidence' = VOC_Evidence \ EvidenceInScope(scope) ]_vars

\* a reference and a curator were both given; the scope was the reference,
\* and evidence of the curator under another reference is still there
C8_Witness ==
    /\ mode \in {"new", "delete"}
    /\ pc \in {"setPrimaryKeys", "exited"}
    /\ delByReference = J1
    /\ delByUser = <<"u", "%">>
    /\ \E k \in DOMAIN sqlLog :
         sqlLog[k].stmt = "create toDelete" /\ sqlLog[k].arg = "reference"
    /\ Ev1 \notin VOC_Evidence
    /\ Ev2 \in VOC_Evidence

\* C9: after the cascade of mode new with reference R under annotation type
\* X, no evidence of X with reference R is left; an annotation of X that had
\* evidence with R and has no evidence left is deleted; an annotation of X
\* that still has evidence is kept; no annotation and no evidence of another
\* annotation type is deleted.
C9_CascadeByReference ==
    [][ (CascadeStep({"new"}) /\ delByReference # NoReference) =>
          /\ \A e \in VOC_Evidence' :
               ~ (annotTypeKey \in TypeOfEvidence(e) /\ e.ref = ScopeReferenceKey)
          /\ \A a \in VOC_Annot :
               a.type = annotTypeKey =>
                 /\ ( /\ \E e \in VOC_Evidence :
                           e.annot = a.key /\ e.ref = ScopeReferenceKey
                      /\ ~ \E e \in VOC_Evidence' : e.annot = a.key )
                    => a \notin VOC_Annot'
                 /\ (\E e \in VOC_Evidence' : e.annot = a.key)
                    => a \in VOC_Annot'
          /\ \A a \in VOC_Annot : a.type # annotTypeKey => a \in VOC_Annot'
          /\ \A e \in VOC_Evidence :
               annotTypeKey \notin TypeOfEvidence(e) => e \in VOC_Evidence'
          /\ VOC_Annot' \subseteq VOC_Annot
          /\ VOC_Evidence' \subseteq VOC_Evidence ]_vars

\* mode new by reference J:1: the annotation with evidence of J:2 is kept
\* with it, the annotation that had only evidence of J:1 is gone, the
\* annotation and the evidence of the other type are kept
C9_Witness ==
    /\ mode = "new"
    /\ delByReference = J1
    /\ pc = "setPrimaryKeys"
    /\ A1 \in VOC_Annot /\ Ev2 \in VOC_Evidence /\ Ev1 \notin VOC_Evidence
    /\ A2 \notin VOC_Annot /\ Ev3 \notin VOC_Evidence
    /\ A3 \in VOC_Annot /\ Ev4 \in VOC_Evidence
    /\ \E k \in DOMAIN sqlLog : sqlLog[k].stmt = "delete VOC_Annot"

\* the scope of C8
ScopeByPrecedence ==
    IF delByReference # <<"J", ":", "0">> THEN "reference"
    ELSE IF ScopeUser # <<"n", "o", "n", "e">> THEN "user"
    ELSE "all"

\* the cascade: the evidence of the scope, its properties and their notes,
\* and the annotations it leaves without evidence
CascadeEffect ==
    LET gone == EvidenceInScope(ScopeByPrecedence)
        props == { q \in VOC_Evidence_Property :
                     \E e \in gone : e.key = q.evidence }
    IN  /\ VOC_Evidence' = VOC_Evidence \ gone
        /\ VOC_Evidence_Property' = VOC_Evidence_Property \ props
        /\ MGI_Note' =
             { n \in MGI_Note :
                 ~ (n.mgiType = 41 /\ \E q \in props : q.key = n.object) }
        /\ VOC_Annot' =
             { a \in VOC_Annot :
                 \/ ~ \E e \in gone : e.annot = a.key
                 \/ \E e \in VOC_Evidence \ gone : e.annot = a.key }
        /\ [ k \in DOMAIN Sent |-> Sent[k].stmt ] =
             <<"create toDelete", "delete MGI_Note",
               "delete VOC_Evidence_Property", "delete VOC_Evidence",
               "delete VOC_Annot">>
             \o (IF isMP THEN <<"delete MGI_Reference_Assoc">> ELSE <<>>)
             \o <<"drop toDelete">>

\* no key counter drawn, no dictionary of the load filled, no line read, no
\* row written, no bulk load
NothingLoaded ==
    /\ annotKey = 0 /\ evidencePrimaryKey = 0
    /\ propertyKey = 0 /\ noteKey = 0
    /\ seq = [annot |-> SeqStart, evidence |-> SeqStart,
              note |-> SeqStart, property |-> SeqStart]
    /\ \A k \in DOMAIN sqlLog : sqlLog[k].stmt \notin {"nextval", "setval"}
    /\ termDict = <<>> /\ pTermDict = <<>> /\ objectDict = <<>>
    /\ annotDict = <<>> /\ evidenceDict = {}
    /\ ecodeDict = <<>> /\ qualifierDict = <<>>
    /\ lineNum = 0 /\ inputFile = <<>> /\ lineLog = <<>>
    /\ annotFile = <<>> /\ evidenceFile = <<>>
    /\ noteFile = <<>> /\ propertyFile = <<>>
    /\ bcpLog = <<>>

\* C10 as stated: mode delete runs the cascade of mode new and exits with
\* status 0 before a key counter is drawn, before any cache is filled and
\* before a line is read; no row is written and there is no bulk load.
C10_DeleteExitsBeforeAnyCache ==
    [][ /\ CascadeStep({"new", "delete"}) => CascadeEffect
        /\ mode = "delete" =>
             /\ CascadeStep({"delete"}) => (pc' = "exited" /\ exitStatus' = 0)
             /\ NothingLoaded'
             /\ referenceDict' = <<>> ]_vars

\* C10, amended: mode delete runs the cascade of mode new and exits with
\* status 0 before a key counter is drawn, before the dictionaries of terms,
\* property terms, annotations and evidence are filled and before a line is
\* read; no row is written and there is no bulk load.  The reference
\* dictionary is filled before the cascade.
C10_DeleteExitsAfterCascade ==
    [][ /\ CascadeStep({"new", "delete"}) => CascadeEffect
        /\ mode = "delete" =>
             /\ CascadeStep({"delete"}) =>
                  /\ pc' = "exited"
                  /\ exitStatus' = 0
                  /\ referenceDict' = ReferenceTable
             /\ NothingLoaded' ]_vars

\* mode delete by reference J:1 has exited with status 0: the evidence of
\* J:1 and the annotation it leaves without evidence are gone
C10_Witness ==
    /\ mode = "delete"
    /\ pc = "exited"
    /\ exitStatus = 0
    /\ delByReference = J1
    /\ Ev1 \notin VOC_Evidence /\ Ev3 \notin VOC_Evidence
    /\ A2 \notin VOC_Annot
    /\ A1 \in VOC_Annot /\ Ev2 \in VOC_Evidence
    /\ NothingLoaded
    /\ referenceDict = ReferenceTable
    /\ referenceDict # <<>>

\* the rows a step removes from the store
RemovedAnnot == VOC_Annot \ VOC_Annot'
RemovedEvidence == VOC_Evidence \ VOC_Evidence'
RemovedProperty == VOC_Evidence_Property \ VOC_Evidence_Property'
RemovedNote == MGI_Note \ MGI_Note'
RemovedRefAssoc == MGI_Reference_Assoc \ MGI_Reference_Assoc'

NothingRemoved ==
    /\ RemovedAnnot = {} /\ RemovedEvidence = {} /\ RemovedProperty = {}
    /\ RemovedNote = {} /\ RemovedRefAssoc = {}

C12_PreviewNoBulkLoad ==
    mode = "preview" =>
        /\ bcpLog = <<>>
        /\ \A k \in DOMAIN sqlLog : sqlLog[k].stmt # "setval"

\* a preview run is over that accepted two lines
C12_Witness ==
    /\ mode = "preview"
    /\ pc = "finished"
    /\ exitStatus = 0
    /\ skipBCP = 0
    /\ \E i, j \in ThisRun :
         i # j /\ lineLog[i].outcome = "accepted" /\ lineLog[j].outcome = "accepted"
    /\ Len(evidenceFile) >= 2

\* C13: in mode preview no delete is executed against the store, under
\* every load type, mcv included, and for every input.
C13_PreviewDeletesNothing ==
    [][ mode = "preview" => NothingRemoved ]_vars

\* C14: in mode preview the four sequences of the store have at the end of
\* the run the value they had at its start.
C14_PreviewKeepsSequences ==
    (mode = "preview" /\ pc = "finished") =>
        seq = [annot |-> SeqStart, evidence |-> SeqStart,
               note |-> SeqStart, property |-> SeqStart]

\* the lines of the run with one of the outcomes
LinesWith(outcomes) ==
    { i \in ThisRun : lineLog[i].outcome \in outcomes }

UnresolvedReferenceToken ==
    delByReference # <<"J", ":", "0">> /\ delByReference \notin DOMAIN ReferenceTable

\* a curator token other than 'none' that is the prefix of no login
UnresolvedUserToken ==
    /\ ScopeUser # <<"n", "o", "n", "e">>
    /\ ~ \E login \in DOMAIN UserTable : StartsWith(login, ScopeUser)

BeforeLoad ==
    pc \in {"init", "verifyAnnotType", "loadReferenceDictionary", "verifyMode",
           "exited"}

\* C16: when the reference token or the curator token of the deletion scope
\* does not resolve, the run ends with a nonzero exit status before a delete
\* is sent and before a line is processed.
C16_UnresolvedScopeAborts ==
    ( /\ mode \in {"new", "delete"}
      /\ UnresolvedReferenceToken \/ UnresolvedUserToken )
    => /\ BeforeLoad
       /\ pc = "exited" => exitStatus # 0
       /\ \A k \in DOMAIN sqlLog :
            sqlLog[k].stmt \notin {"delete MGI_Note", "delete VOC_Evidence_Property",
                                   "delete VOC_Evidence", "delete VOC_Annot",
                                   "delete MGI_Reference_Assoc"}
       /\ lineLog = <<>>

\* a mode that is none of the four, or an annotation type the store lacks
InvalidStart ==
    \/ mode \notin {"new", "append", "preview", "delete"}
    \/ RemoveQuotes(annotTypeName) \notin DOMAIN AnnotTypeTable

\* C17: with a mode string other than new, append, preview and delete, or an
\* annotation type name the store does not hold, the run ends with a nonzero
\* exit status before the store is changed: no delete is sent, no sequence is
\* advanced, no line is processed, the bulk load is not invoked.
C17_InvalidStartAborts ==
    [][ InvalidStart =>
          /\ BeforeLoad'
          /\ pc' = "exited" => exitStatus' = 1
          /\ (pc = "verifyAnnotType" /\ pc' # pc
              /\ RemoveQuotes(annotTypeName) \notin DOMAIN AnnotTypeTable)
                => pc' = "exited"
          /\ (pc = "verifyMode" /\ pc' # pc) => pc' = "exited"
          /\ UNCHANGED <<VOC_Annot, VOC_Evidence, VOC_Evidence_Property,
                         MGI_Note, MGI_Reference_Assoc, seq>>
          /\ sqlLog' = <<>>
          /\ lineNum' = 0 /\ lineLog' = <<>> /\ inputFile' = <<>>
          /\ bcpLog' = <<>> ]_vars

\* a run with an unknown mode and a reference to delete by has ended with
\* status 1 in verifyMode; the evidence of the reference is still there
C17_Witness ==
    /\ mode = "bogus"
    /\ pc = "exited"
    /\ exitStatus = 1
    /\ annotTypeKey # 0
    /\ delByReference = J1
    /\ Ev1 \in VOC_Evidence
    /\ sqlLog = <<>>

\* the run wrote a row to one of the four files
RowsEmitted ==
    annotFile # <<>> \/ evidenceFile # <<>> \/ noteFile # <<>> \/ propertyFile # <<>>

\* C18: at the end of a run that is not a preview the bulk load is invoked
\* if and only if the run wrote at least one row; a run whose validated lines
\* all are duplicates, and an mcv run that accepted no line, do not invoke it.
C18_BulkLoadIffRows ==
    (mode # "preview" /\ pc = "finished") => (bcpLog # <<>> <=> RowsEmitted)

\* the term of the pair is a term of the property vocabulary
ResolvingPair(pair) == \E p \in PropertyVocab : p.term = pair[1]

UnresolvedPair(pair) == ~ ResolvingPair(pair)

PropertyKeyOf(term) == (CHOOSE p \in PropertyVocab : p.term = term).key

RECURSIVE Concat(_)
Concat(seqs) == IF seqs = <<>> THEN <<>> ELSE Head(seqs) \o Concat(Tail(seqs))

\* (stanza index, sequence index, term key, value) of every pair, in blob order
BlobTuples(b) ==
    Concat([s \in 1..Len(b) |->
              [k \in 1..Len(b[s]) |->
                 <<s, k, PropertyKeyOf(b[s][k][1]), b[s][k][2]>>]])

\* (stanza index, term key, value) of the pairs whose term resolves
SurvivingTuples(b) ==
    Concat([s \in 1..Len(b) |->
              LET r == SelectSeq(b[s], ResolvingPair)
              IN  [k \in 1..Len(r) |-> <<s, PropertyKeyOf(r[k][1]), r[k][2]>>]])

\* the terms that do not resolve, in blob order
DroppedTerms(b) ==
    Concat([s \in 1..Len(b) |->
              LET d == SelectSeq(b[s], UnresolvedPair)
              IN  [k \in 1..Len(d) |-> d[k][1]]])

AllResolve(b) == \A s \in 1..Len(b) : \A k \in 1..Len(b[s]) : ResolvingPair(b[s][k])

RowTuples(rows) ==
    [k \in 1..Len(rows) |->
        <<rows[k].stanza, rows[k].seqnum, rows[k].term, rows[k].value>>]

\* the lines that reached createEvidenceRecord with a new evidence key
NewEvidence(e) == Validated(e) /\ e.outcome # "duplicate"

\* C19: for a blob of stanzas joined by '&===&', of pairs 'term&=&value'
\* joined by '&==&', whose terms all are property terms, the Property rows of
\* the line, in the order they are written, are the blob's (stanza index,
\* sequence index, term key, value) in blob order, both indices from 1 and
\* the sequence index from 1 again in every stanza; an empty blob writes no
\* Property row and no error.
C19_PropertyRoundTrip ==
    /\ propertyFile = Concat([i \in 1..Len(lineLog) |-> lineLog[i].propertyRows])
    /\ \A i \in DOMAIN lineLog : \A b \in PropertyBlobs :
         ( /\ NewEvidence(lineLog[i])
           /\ lineLog[i].properties = EncodeBlob(b)
           /\ AllResolve(b) )
         => /\ lineLog[i].outcome = "accepted"
            /\ RowTuples(lineLog[i].propertyRows) = BlobTuples(b)
            /\ lineLog[i].errors = <<>>

\* a line with two stanzas of two pairs each wrote four rows, and a line with
\* an empty blob wrote none
C19_Witness ==
    /\ pc = "bcpFiles"
    /\ \E i \in DOMAIN lineLog :
         /\ lineLog[i].outcome = "accepted"
         /\ lineLog[i].properties =
              EncodeBlob(<< << << <<"p">>, <<"v">> >>, << <<"q">>, <<"w">> >> >>,
                            << << <<"q">>, <<"w">> >>, << <<"p">>, <<"v">> >> >> >>)
         /\ RowTuples(lineLog[i].propertyRows) =
              << <<1, 1, 1, <<"v">> >>, <<1, 2, 2, <<"w">> >>,
                 <<2, 1, 2, <<"w">> >>, <<2, 2, 1, <<"v">> >> >>
    /\ Len(propertyFile) >= 4

\* C20: a pair whose term is not a property term is dropped alone, with one
\* 'Invalid Property' entry; every other pair of the stanza and of the other
\* stanzas writes its Property row, and the Evidence row of the line and its
\* Note row are written.
C20_InvalidPropertyDropsOnePair ==
    \A i \in DOMAIN lineLog : \A b \in PropertyBlobs :
        ( NewEvidence(lineLog[i]) /\ lineLog[i].properties = EncodeBlob(b) )
        => /\ lineLog[i].outcome = "accepted"
           /\ [k \in 1..Len(lineLog[i].propertyRows) |->
                 <<lineLog[i].propertyRows[k].stanza,
                   lineLog[i].propertyRows[k].term,
                   lineLog[i].propertyRows[k].value>>] = SurvivingTuples(b)
           /\ [k \in 1..Len(lineLog[i].errors) |->
                 <<lineLog[i].errors[k].kind, lineLog[i].errors[k].lineNum,
                   lineLog[i].errors[k].value>>]
                = [k \in 1..Len(DroppedTerms(b)) |->
                     <<"Invalid Property", lineLog[i].lineNum, DroppedTerms(b)[k]>>]
           /\ \A k \in 1..Len(lineLog[i].errors) : lineLog[i].errors[k] \in Range(errorFile)
           /\ Len(lineLog[i].evidenceRows) = 1
           /\ Range(lineLog[i].evidenceRows) \subseteq Range(evidenceFile)
           /\ Len(lineLog[i].noteRows) = IF lineLog[i].notes # <<>> THEN 1 ELSE 0
           /\ Range(lineLog[i].noteRows) \subseteq Range(noteFile)
           /\ Range(lineLog[i].propertyRows) \subseteq Range(propertyFile)

\* a line with a note, whose first stanza holds 'z' before 'p' and whose
\* second stanza holds 'q', wrote the rows of 'p' and 'q'
C20_Witness ==
    /\ pc = "bcpFiles"
    /\ \E i \in DOMAIN lineLog :
         /\ lineLog[i].outcome = "accepted"
         /\ lineLog[i].notes = <<"n">>
         /\ lineLog[i].properties =
              EncodeBlob(<< << << <<"z">>, <<"v">> >>, << <<"p">>, <<"v">> >> >>,
                            << << <<"q">>, <<"w">> >> >> >>)
         /\ Len(lineLog[i].propertyRows) = 2
         /\ Len(lineLog[i].errors) = 1
         /\ Len(noteFile) = 1
         /\ Len(evidenceFile) = 1
    /\ \E k \in DOMAIN errorFile : errorFile[k].kind = "Invalid Property"

\* the keys of the rows of a file are first, first + 1, ... in the order written
KeysFrom(file, first) == \A k \in DOMAIN file : file[k].key = first + k - 1

\* how often the run drew from the sequence
NextvalCount(sequence) ==
    Cardinality({ k \in DOMAIN sqlLog :
                    /\ sqlLog[k].run = run
                    /\ sqlLog[k].stmt = "nextval"
                    /\ sqlLog[k].arg = sequence })

Sequences ==
    {"voc_annot_seq", "voc_evidence_seq", "mgi_note_seq", "voc_evidence_property_seq"}

\* C21: in one run the keys of the Annotation, Evidence, Note and Property
\* rows written are, in the order written, the value drawn from the sequence
\* at load start, then each the previous plus one (so pairwise distinct and
\* increasing; rejected and duplicate lines use no key); every sequence is
\* drawn from once, before the first line is processed.
C21_KeysConsecutive ==
    /\ \A s \in Sequences : NextvalCount(s) <= 1
    /\ (lineLog # <<>>) => \A s \in Sequences : NextvalCount(s) = 1
    /\ BeforeBulkLoad =>
        /\ KeysFrom(annotFile, seq.annot)
        /\ KeysFrom(evidenceFile, seq.evidence)
        /\ KeysFrom(noteFile, seq.note)
        /\ KeysFrom(propertyFile, seq.property)
        /\ annotKey = seq.annot + Len(annotFile)
        /\ evidencePrimaryKey = seq.evidence + Len(evidenceFile)
        /\ noteKey = seq.note + Len(noteFile)
        /\ propertyKey = seq.property + Len(propertyFile)

\* three lines were read: an accepted one, a rejected one and an accepted one
\* of another annotation; two Annotation and two Evidence rows were written
C21_Witness ==
    /\ pc = "bcpFiles"
    /\ \E i, j, k \in ThisRun :
         /\ i < j /\ j < k
         /\ lineLog[i].outcome = "accepted"
         /\ lineLog[j].outcome = "rejected"
         /\ lineLog[k].outcome = "accepted"
    /\ Len(annotFile) = 2
    /\ annotFile[1].key = seq.annot
    /\ annotFile[2].key = annotFile[1].key + 1
    /\ Len(evidenceFile) = 2
    /\ evidenceFile[2].key = evidenceFile[1].key + 1
    /\ evidenceFile[1].key = seq.evidence

\* C22: in the loop of processMcvFile, validated lines with the same
\* (object, term, qualifier) get the same annotation key, and at most one
\* Annotation row is written for the combination in the run.
C22_McvOneAnnotationPerCombination ==
    (BeforeBulkLoad /\ isMCV) =>
        \A i, j \in ThisRun :
            ( /\ Validated(lineLog[i]) /\ Validated(lineLog[j])
              /\ SameAnnotation(lineLog[i], lineLog[j]) )
            => /\ lineLog[i].newAnnotKey = lineLog[j].newAnnotKey
               /\ Cardinality(AnnotRowsOf(lineLog[i].objectKey, lineLog[i].termKey,
                                          lineLog[i].qualifierKey)) <= 1

\* the date the rows of line e are to carry: the date field of the line as
\* read, or the load date when that field is blank
DateOfLine(e) ==
    LET given == Strip(inputFile[e.lineNum][8])
    IN  IF given = <<>> THEN loaddate ELSE given

\* no earlier validated line of the run has the annotation of line i
FirstOfAnnotation(i) ==
    \A j \in ThisRun :
        (j < i /\ Validated(lineLog[j])) => ~ SameAnnotation(lineLog[i], lineLog[j])

\* C23: in mode append a line that passes the six verifications, whose
\* (object, term, qualifier) is neither in the store nor on an earlier line,
\* writes exactly one Annotation row and exactly one Evidence row that
\* references it; both rows carry as creation and modification date the load
\* date when the date field of the line is blank, and else the date given.
C23_NewAnnotationAndEvidence ==
    (mode = "append" /\ BeforeBulkLoad) =>
        \A i \in ThisRun :
            LET e == lineLog[i]
            IN  ( /\ Validated(e)
                  /\ ~ InAnnotSnapshot(e.objectKey, e.termKey, e.qualifierKey)
                  /\ FirstOfAnnotation(i) )
                => /\ e.outcome = "accepted"
                   /\ Len(e.annotRows) = 1
                   /\ Len(e.evidenceRows) = 1
                   /\ e.annotRows[1] =
                        AnnotRow(e.newAnnotKey, annotTypeKey, e.objectKey, e.termKey,
                                 e.qualifierKey, DateOfLine(e))
                   /\ e.evidenceRows[1].annot = e.annotRows[1].key
                   /\ e.evidenceRows[1].code = e.evidenceKey
                   /\ e.evidenceRows[1].ref = e.referenceKey
                   /\ e.evidenceRows[1].cdate = DateOfLine(e)
                   /\ e.evidenceRows[1].mdate = DateOfLine(e)
                   /\ Cardinality({ k \in DOMAIN annotFile :
                                      annotFile[k] = e.annotRows[1] }) = 1
                   /\ Cardinality({ k \in DOMAIN evidenceFile :
                                      evidenceFile[k] = e.evidenceRows[1] }) = 1

\* a line without a date and a line with the date 'd', of two annotations the
\* store does not hold, wrote their rows
C23_Witness ==
    /\ pc = "bcpFiles"
    /\ mode = "append"
    /\ \E i, j \in ThisRun :
         /\ lineLog[i].outcome = "accepted" /\ lineLog[j].outcome = "accepted"
         /\ FirstOfAnnotation(i) /\ FirstOfAnnotation(j)
         /\ lineLog[i].annotRows # <<>> /\ lineLog[j].annotRows # <<>>
         /\ inputFile[lineLog[i].lineNum][8] = <<>>
         /\ lineLog[i].evidenceRows[1].cdate = loaddate
         /\ inputFile[lineLog[j].lineNum][8] = <<"d">>
         /\ lineLog[j].annotRows[1].cdate = <<"d">>

Terminated == pc \in {"finished", "exited"}

\* the step meets a fatal condition: a file that cannot be opened, an
\* annotation type the store does not hold, a mode that is none of the four,
\* a line of fewer than nine columns or with a malformed property pair
FatalStep ==
    \/ pc = "init" /\ pc' = "exited"
    \/ pc = "verifyAnnotType" /\ RemoveQuotes(annotTypeName) \notin DOMAIN AnnotTypeTable
    \/ pc = "verifyMode" /\ mode \notin {"new", "append", "preview", "delete"}
    \/ pc = "process" /\ lineLog' # lineLog /\ Logged.outcome \in {"short", "raised"}

\* C24: every run over a finite input ends; a step that meets a fatal
\* condition ends it with a nonzero exit status, and a run that ends without
\* one, also after no line or only rejected lines, ends with status 0.
C24_TerminatesWithStatus ==
    /\ <>Terminated
    /\ [][ /\ FatalStep => (pc' = "exited" /\ exitStatus' # 0)
           /\ (Terminated' /\ ~ FatalStep) => exitStatus' = 0 ]_vars

\* a run that rejected each of its two lines finished with status 0
C24_Witness ==
    /\ pc = "finished"
    /\ exitStatus = 0
    /\ Len(lineLog) = 2
    /\ \A i \in DOMAIN lineLog : lineLog[i].outcome = "rejected"
    /\ errorFile # <<>>

\* no Evidence row of the store has the annotation, code and reference of e
NoStoredEvidence(e) ==
    ~ \E s \in VOC_Evidence :
        s.annot = e.newAnnotKey /\ s.code = e.evidenceKey /\ s.ref = e.referenceKey

\* no earlier accepted line of the run has the evidence key of line i
FirstOfEvidence(i) ==
    \A j \in ThisRun :
        (j < i /\ lineLog[j].outcome = "accepted") => lineLog[j].eKey # lineLog[i].eKey

\* C25: in mode new the snapshots of annotations and evidence are those of
\* the store after the cascade: a validated line whose (annotation, code,
\* reference) the store no longer holds is accepted as new, not logged as a
\* duplicate, and a line whose annotation the store no longer holds gets a
\* newly drawn annotation key and writes an Annotation row.
C25_SnapshotAfterCascade ==
    (mode = "new" /\ BeforeBulkLoad) =>
        \A i \in ThisRun :
            LET e == lineLog[i]
            IN  Validated(e) =>
                /\ (NoStoredEvidence(e) /\ FirstOfEvidence(i))
                     => /\ e.outcome = "accepted"
                        /\ Len(e.evidenceRows) = 1
                        /\ Cardinality(DuplicateEntries(e.lineNum)) = 0
                /\ ( /\ ~ InAnnotSnapshot(e.objectKey, e.termKey, e.qualifierKey)
                     /\ FirstOfAnnotation(i) )
                     => /\ Len(e.annotRows) = 1
                        /\ e.annotRows[1].key = e.newAnnotKey
                        /\ e.newAnnotKey >= seq.annot
                        /\ e.newAnnotKey \notin { a.key : a \in {A1, A2, A3, A4} }

\* mode new by reference J:1 over a store in which annotation A1 had only the
\* evidence Ev1 of J:1: the cascade removed both, and the line with the
\* object, term, code and reference of Ev1 was accepted under a new key
C25_Witness ==
    /\ mode = "new"
    /\ delByReference = J1
    /\ pc = "bcpFiles"
    /\ A1 \notin VOC_Annot
    /\ Ev1 \notin VOC_Evidence
    /\ \E i \in ThisRun :
         /\ inputFile[lineLog[i].lineNum] = BaseLine
         /\ lineLog[i].objectKey = A1.object /\ lineLog[i].termKey = A1.term
         /\ lineLog[i].evidenceKey = Ev1.code /\ lineLog[i].referenceKey = Ev1.ref
         /\ lineLog[i].outcome = "accepted"
         /\ Len(lineLog[i].annotRows) = 1
         /\ lineLog[i].newAnnotKey > A4.key

\* the deletes of the step, by table, in the order they were sent
DeletesSent ==
    LET deletes == SelectSeq(Sent, LAMBDA st :
                       st.stmt \in {"delete MGI_Note", "delete VOC_Evidence_Property",
                                    "delete VOC_Evidence", "delete VOC_Annot"})
    IN  [ k \in 1..Len(deletes) |-> deletes[k].stmt ]

\* a row is removed only when no row that references it is left: the notes
\* of a property, the properties of an evidence, the evidence of an annotation
ChildrenFirst ==
    /\ \A p \in RemovedProperty :
         ~ \E n \in MGI_Note' : n.mgiType = 41 /\ n.object = p.key
    /\ \A e \in RemovedEvidence :
         ~ \E p \in VOC_Evidence_Property' : p.evidence = e.key
    /\ \A a \in RemovedAnnot :
         ~ \E e \in VOC_Evidence' : e.annot = a.key

\* C26 as stated: the cascade of mode new and delete removes the Property
\* rows of the evidence in scope first, then the Note rows, then the Evidence
\* rows, then the Annotation rows left without evidence; no parent row is
\* removed while a child row of it exists.
C26_CascadeOrder ==
    [][ CascadeStep({"new", "delete"}) =>
          /\ DeletesSent = <<"delete VOC_Evidence_Property", "delete MGI_Note",
                             "delete VOC_Evidence", "delete VOC_Annot">>
          /\ ChildrenFirst ]_vars

\* C26, amended: the cascade of mode new and delete removes first the notes
\* of the Property rows of the evidence in scope, then these Property rows,
\* then the Evidence rows, then the Annotation rows left without evidence; no
\* Property row is removed while a note of it exists, no Evidence row while a
\* Property row of it exists, no Annotation row while an Evidence row of it
\* exists.
C26_CascadeOrderNotesFirst ==
    [][ CascadeStep({"new", "delete"}) =>
          /\ DeletesSent = <<"delete MGI_Note", "delete VOC_Evidence_Property",
                             "delete VOC_Evidence", "delete VOC_Annot">>
          /\ ChildrenFirst ]_vars

\* after the cascade of a store that held evidence Ev2 (its evidence note Nt1
\* still is there): Ev2, its property Pr1 and the note Nt2 of Pr1 are gone
C26_Witness ==
    /\ mode \in {"new", "delete"}
    /\ pc \in {"setPrimaryKeys", "exited"}
    /\ \E k \in DOMAIN sqlLog : sqlLog[k].stmt = "delete VOC_Evidence_Property"
    /\ Nt1 \in MGI_Note
    /\ Nt2 \notin MGI_Note
    /\ Pr1 \notin VOC_Evidence_Property
    /\ Ev2 \notin VOC_Evidence

\* C27: after the cascade of mode new or delete the store holds no Note row
\* of a removed Evidence row: neither an evidence note (note object type 25,
\* keyed by the evidence key) nor a note of one of its Property rows.
C27_NoNoteOfRemovedEvidence ==
    [][ CascadeStep({"new", "delete"}) =>
          \A e \in RemovedEvidence :
            /\ ~ \E n \in MGI_Note' :
                   n.mgiType = mgiNoteObjectKey /\ n.object = e.key
            /\ ~ \E n \in MGI_Note' :
                   /\ n.mgiType = 41
                   /\ \E p \in VOC_Evidence_Property :
                        p.evidence = e.key /\ p.key = n.object ]_vars

\* C28: in mode new or delete without a reference ('J:0') and without a
\* curator ('none') the store holds no Annotation row of the loaded
\* annotation type after the cascade, the rows without evidence included.
C28_UnscopedDeletesAllOfType ==
    [][ ( /\ CascadeStep({"new", "delete"})
          /\ delByReference = <<"J", ":", "0">>
          /\ ScopeUser = <<"n", "o", "n", "e">> )
        => \A a \in VOC_Annot' : a.type # annotTypeKey ]_vars

\* the lines of the run that had fewer than nine columns
ShortLines == { i \in ThisRun : lineLog[i].outcome = "short" }

\* C29: a line of fewer than nine tab-separated columns ends the run: the
\* exit status is not 0, no later line is processed and there is no bulk
\* load, so no row written for an earlier line of the run reaches the store.
C29_ShortLineAborts ==
    \A i \in ShortLines :
        /\ pc = "exited"
        /\ exitStatus # 0
        /\ i = Len(lineLog)
        /\ lineNum = lineLog[i].lineNum
        /\ bcpLog = <<>>
        /\ \A k \in DOMAIN sqlLog : sqlLog[k].stmt # "setval"
        /\ Range(annotFile) \cap VOC_Annot = {}
        /\ Range(evidenceFile) \cap VOC_Evidence = {}
        /\ Range(noteFile) \cap MGI_Note = {}
        /\ Range(propertyFile) \cap VOC_Evidence_Property = {}

\* a run accepted its first line and ended at a second line of three columns
C29_Witness ==
    /\ pc = "exited"
    /\ exitStatus = 1
    /\ Len(lineLog) = 2
    /\ lineLog[1].outcome = "accepted"
    /\ lineLog[2].outcome = "short"
    /\ Len(inputFile[2]) = 3
    /\ Len(evidenceFile) = 1
    /\ evidenceFile[1] \notin VOC_Evidence

\* (stanza index, position of the pair in its stanza, term key, value) of the
\* pairs whose term resolves
PositionTuples(b) ==
    Concat([s \in 1..Len(b) |->
              LET r == SelectSeq([k \in 1..Len(b[s]) |-> <<k, b[s][k]>>],
                                 LAMBDA t : ResolvingPair(t[2]))
              IN  [k \in 1..Len(r) |->
                     <<s, r[k][1], PropertyKeyOf(r[k][2][1]), r[k][2][2]>>]])

\* (stanza index, rank among the pairs of the stanza whose term resolves,
\* term key, value) of the pairs whose term resolves
RankTuples(b) ==
    Concat([s \in 1..Len(b) |->
              LET r == SelectSeq(b[s], ResolvingPair)
              IN  [k \in 1..Len(r) |->
                     <<s, k, PropertyKeyOf(r[k][1]), r[k][2]>>]])

\* C30 as stated: the sequence index of every Property row written is the
\* position, from 1, of its pair in its stanza of the blob, and its stanza
\* index the position of the stanza in the blob, also when an earlier pair of
\* the stanza was dropped as invalid.
C30_SeqnumIsPosition ==
    \A i \in DOMAIN lineLog : \A b \in PropertyBlobs :
        ( NewEvidence(lineLog[i]) /\ lineLog[i].properties = EncodeBlob(b) )
        => RowTuples(lineLog[i].propertyRows) = PositionTuples(b)

\* C30, amended: the stanza index of every Property row written is the
\* position, from 1, of its stanza in the blob; its sequence index is one more
\* than the number of earlier pairs of the stanza that were written, so the
\* pairs after a dropped pair are numbered as if it were not there.
C30_SeqnumIsRankOfWritten ==
    \A i \in DOMAIN lineLog : \A b \in PropertyBlobs :
        ( NewEvidence(lineLog[i]) /\ lineLog[i].properties = EncodeBlob(b) )
        => RowTuples(lineLog[i].propertyRows) = RankTuples(b)

\* the line with the stanzas (z, p) and (z, q): 'p' and 'q' both were written
\* with sequence index 1, stanza index 1 and 2
C30_Witness ==
    \E i \in DOMAIN lineLog :
        /\ lineLog[i].outcome = "accepted"
        /\ lineLog[i].properties =
             EncodeBlob(<< << << <<"z">>, <<"v">> >>, << <<"p">>, <<"v">> >> >>,
                           << << <<"z">>, <<"v">> >>, << <<"q">>, <<"w">> >> >> >>)
        /\ RowTuples(lineLog[i].propertyRows) =
             << <<1, 1, 1, <<"v">> >>, <<2, 1, 2, <<"w">> >> >>
        /\ Range(lineLog[i].propertyRows) \subseteq Range(propertyFile)

\* the annotation key is that of a store row of the loaded type, or of an
\* Annotation row written for line i or an earlier line of the run
AnnotationKnown(key, i) ==
    \/ \E a \in VOC_Annot : a.key = key /\ a.type = annotTypeKey
    \/ \E j \in ThisRun : j <= i /\ \E k \in DOMAIN lineLog[j].annotRows :
           lineLog[j].annotRows[k].key = key

\* C31: the rows written reference each other: every Evidence row carries
\* the key of an annotation of the store or of an Annotation row written
\* earlier in the run; every Note row and Property row carries the key of the
\* Evidence row written for the same line; an Evidence row has at most one
\* Note row, and has it only when the notes of the line are not empty.
C31_RowsReferenceEachOther ==
    BeforeBulkLoad =>
        /\ annotFile = Concat([i \in 1..Len(lineLog) |-> lineLog[i].annotRows])
        /\ evidenceFile = Concat([i \in 1..Len(lineLog) |-> lineLog[i].evidenceRows])
        /\ noteFile = Concat([i \in 1..Len(lineLog) |-> lineLog[i].noteRows])
        /\ propertyFile = Concat([i \in 1..Len(lineLog) |-> lineLog[i].propertyRows])
        /\ \A i \in ThisRun :
             LET e == lineLog[i]
             IN  /\ Len(e.evidenceRows) <= 1
                 /\ \A k \in DOMAIN e.evidenceRows :
                      /\ e.evidenceRows[k].annot = e.newAnnotKey
                      /\ AnnotationKnown(e.evidenceRows[k].annot, i)
                 /\ (e.noteRows # <<>> \/ e.propertyRows # <<>>)
                      => Len(e.evidenceRows) = 1
                 /\ Len(e.noteRows) <= 1
                 /\ e.noteRows # <<>> => e.notes # <<>>
                 /\ \A k \in DOMAIN e.noteRows :
                      /\ e.noteRows[k].object = e.evidenceRows[1].key
                      /\ e.noteRows[k].mgiType = mgiNoteObjectKey
                 /\ \A k \in DOMAIN e.propertyRows :
                      e.propertyRows[k].evidence = e.evidenceRows[1].key
        /\ \A k \in DOMAIN evidenceFile :
             Cardinality({ n \in DOMAIN noteFile :
                             noteFile[n].object = evidenceFile[k].key }) <= 1

\* two accepted lines: one with a note and a property whose evidence
\* references an annotation of the store, one that wrote its own annotation
C31_Witness ==
    /\ pc = "bcpFiles"
    /\ \E i, j \in ThisRun :
         /\ lineLog[i].outcome = "accepted" /\ lineLog[j].outcome = "accepted"
         /\ lineLog[i].annotRows = <<>>
         /\ \E a \in VOC_Annot : a.key = lineLog[i].evidenceRows[1].annot
         /\ Len(lineLog[i].noteRows) = 1
         /\ Len(lineLog[i].propertyRows) = 1
         /\ lineLog[i].noteRows[1].object = lineLog[i].evidenceRows[1].key
         /\ Len(lineLog[j].annotRows) = 1
         /\ lineLog[j].evidenceRows[1].annot = lineLog[j].annotRows[1].key

\* the key of the qualifier with the token as abbreviation (byAbbrev = 1) or
\* as term (byAbbrev = 0), 0 when there is none; the empty token is None
QualifierKeyOf(qualifier, byAbbrev) ==
    LET q == IF Len(qualifier) = 0 THEN None ELSE qualifier
        found == { v \in QualifierVocab :
                     IF byAbbrev = 1 THEN v.abbreviation = q ELSE v.term = q }
    IN  IF found = {} THEN 0 ELSE (CHOOSE v \in found : TRUE).key

\* C32: every call of verifyQualifier resolves the token in the mode of that
\* call, by abbreviation with byAbbrev = 1 and by term with byAbbrev = 0,
\* whatever the mode of the earlier calls of the process was.
C32_QualifierByCallMode ==
    \A i \in DOMAIN lineLog :
        lineLog[i].key = QualifierKeyOf(lineLog[i].qualifier, lineLog[i].byAbbrev)

\* ---------------------------------------------------------------- two runs
\* the run bulk loaded its files
LoadedRun(r) == \E b \in DOMAIN bcpLog : bcpLog[b].run = r

RowKeys(rows) == { rows[k].key : k \in DOMAIN rows }

\* a row of line e and a row of line f, for the same table, under one key
SharedKey(e, f) ==
    \/ RowKeys(e.annotRows) \cap RowKeys(f.annotRows) # {}
    \/ RowKeys(e.evidenceRows) \cap RowKeys(f.evidenceRows) # {}
    \/ RowKeys(e.noteRows) \cap RowKeys(f.noteRows) # {}
    \/ RowKeys(e.propertyRows) \cap RowKeys(f.propertyRows) # {}

\* two runs that loaded gave one key to a row each
Collision ==
    \E i, j \in DOMAIN lineLog :
        /\ lineLog[i].run # lineLog[j].run
        /\ LoadedRun(lineLog[i].run)
        /\ LoadedRun(lineLog[j].run)
        /\ SharedKey(lineLog[i], lineLog[j])

\* statement k is run r drawing a starting key
Drew(r, k) == sqlLog[k].run = r /\ sqlLog[k].stmt = "nextval"

\* both runs drew their starting keys before either wrote its sequence
\* values back
Overlap ==
    \E a, b \in DOMAIN sqlLog :
        /\ Drew(1, a)
        /\ Drew(2, b)
        /\ \A c \in DOMAIN sqlLog : sqlLog[c].stmt = "setval" => (c > a /\ c > b)

\* C33: two runs against the same annotation type give the same surrogate
\* key to two different rows only when both drew their starting keys before
\* either wrote its rows and sequence values back; runs that start one after
\* the other has ended do not.  (That the overlapping runs can do so is the
\* state of C33_Witness.)
C33_CollisionOnlyWhenOverlapping == Collision => Overlap

\* both runs ended with status 0 after the bulk load, the first wrote two
\* Evidence rows, and a key is shared
C33_Witness ==
    /\ Collision
    /\ Overlap
    /\ pc = "finished"
    /\ suspended.pc = "finished"
    /\ \E i, j \in DOMAIN lineLog :
          /\ lineLog[i].run = 1
          /\ lineLog[j].run = 2
          /\ RowKeys(lineLog[i].evidenceRows) \cap RowKeys(lineLog[j].evidenceRows) # {}

TableKeys(table) == { r.key : r \in table }

\* no row the run wrote to its files has the key of a row of the store
FreshOfStore ==
    /\ RowKeys(annotFile) \cap TableKeys(VOC_Annot) = {}
    /\ RowKeys(evidenceFile) \cap TableKeys(VOC_Evidence) = {}
    /\ RowKeys(noteFile) \cap TableKeys(MGI_Note) = {}
    /\ RowKeys(propertyFile) \cap TableKeys(VOC_Evidence_Property) = {}

\* C39: for runs executed one after another, in any modes and whatever the
\* earlier run's outcome (loaded, bulk load skipped, preview, aborted), no
\* key a later run gives to a row is the key of a row in the store or a key
\* an earlier run gave to a row it loaded, the store sequences starting at or
\* above the highest key of their tables.
C39_SequentialKeysFresh ==
    /\ (pc \in {"process", "bcpFiles", "exited"}) => FreshOfStore
    /\ \A i, j \in DOMAIN lineLog :
          ( /\ lineLog[i].run < lineLog[j].run
            /\ LoadedRun(lineLog[i].run) )
          => ~ SharedKey(lineLog[i], lineLog[j])

\* the second run wrote an Evidence row, after a first run that loaded one
C39_Witness ==
    /\ run = 2
    /\ pc = "bcpFiles"
    /\ evidenceFile # <<>>
    /\ LoadedRun(1)
    /\ \E i \in DOMAIN lineLog : lineLog[i].run = 1 /\ lineLog[i].evidenceRows # <<>>

\* the second run wrote an Evidence row, after a first run that wrote one and
\* ended without the bulk load
C39_WitnessNotLoaded ==
    /\ run = 2
    /\ pc = "bcpFiles"
    /\ evidenceFile # <<>>
    /\ ~ LoadedRun(1)
    /\ \E i \in DOMAIN lineLog : lineLog[i].run = 1 /\ lineLog[i].evidenceRows # <<>>

\* C34: in mode append the load does not check for duplicates: every line
\* that passes validation emits an Evidence row, also when an identical line
\* came earlier or an identical Evidence row is in the store.
C34_AppendEmitsEveryValidatedLine ==
    mode = "append"
    => \A i \in DOMAIN lineLog :
          (Validated(lineLog[i]) /\ lineLog[i].outcome # "raised")
          => Len(lineLog[i].evidenceRows) = 1

\* the Annotation row has an Evidence row of this run
HasEvidence(a) == \E m \in DOMAIN evidenceFile : evidenceFile[m].annot = a.key

\* C35: between any two lines and at the end of the run every Annotation row
\* written in this run is referenced by at least one Evidence row written in
\* this run (the store holding no annotation key at or above the starting
\* key), and a line rejected as duplicate evidence has written no Annotation
\* row.
C35_NoOrphanAnnotation ==
    /\ \A k \in DOMAIN annotFile : HasEvidence(annotFile[k])
    /\ \A i \in DOMAIN lineLog :
          lineLog[i].outcome = "duplicate" => lineLog[i].annotRows = <<>>

\* a line wrote an Annotation row, a later line for the same annotation was
\* rejected as duplicate evidence, and the run has ended
C35_Witness ==
    /\ pc = "finished"
    /\ annotFile # <<>>
    /\ \E i, j \in DOMAIN lineLog :
          /\ i < j
          /\ lineLog[i].annotRows # <<>>
          /\ lineLog[j].outcome = "duplicate"
          /\ lineLog[j].newAnnotKey = lineLog[i].newAnnotKey

\* C36: the evidence key is injective on its fields: two validated lines
\* that differ in a key field of the load type (go, diseaseMarker,
\* diseaseAllele: annotation, code, reference, property blob, inferred-from;
\* mpMarker, mpAllele: annotation, code, reference, property blob, notes)
\* are not reported as duplicates of each other, also when the text fields
\* hold ':'; over an empty store a line reported as duplicate has the key
\* fields of an earlier line.
C36_EvidenceKeyInjective ==
    \A j \in DOMAIN lineLog :
        lineLog[j].outcome = "duplicate"
        => \E i \in 1..(j - 1) :
              /\ NewEvidence(lineLog[i])
              /\ KeyFields(lineLog[i]) = KeyFields(lineLog[j])

\* C37: property problems never stop the run: for every non-empty property
\* blob, one with a pair that holds no '&=&' or more than one included, the
\* processing of the line completes and the evidence key counter advances by
\* exactly one (so that it is the key of the last Evidence row plus one), and
\* the lines that follow are processed.
C37_PropertyProblemsNeverStop ==
    \A i \in DOMAIN lineLog :
        (NewEvidence(lineLog[i]) /\ lineLog[i].properties # <<>>)
        => /\ lineLog[i].outcome = "accepted"
           /\ evidencePrimaryKey = evidenceFile[Len(evidenceFile)].key + 1

\* C38: an object identifier is accepted on a line only if it exists in the
\* logical DB active for that line: after column 10 of a line switched the
\* logical DB, an identifier cached or resolved under the previous logical
\* DB that the new one does not hold is rejected as an invalid object.  (After
\* a line, logicalDBKey is the logical DB that was active for it.)
C38_ObjectInActiveNamespace ==
    lineLog # <<>>
    => LET e == lineLog[Len(lineLog)]
       IN  (e.outcome \notin {"short", "deleteOnly"} /\ e.objectKey # 0)
           => \E a \in ObjectQuery(inputFile[e.lineNum][2], logicalDBKey) :
                 a.key = e.objectKey

====
